---- MODULE Spec2Model ----
(***************************************************************************)
(* State-machine model of the nec-api backend (src/src/app): the           *)
(* relational store behind the FastAPI endpoints and the request handlers  *)
(* of endpoints/*.py, each modelled as one atomic action.                  *)
(*                                                                         *)
(* A table is a function from the ids of its rows to the rows.  A row      *)
(* carries the columns that some handler or constraint reads: the foreign  *)
(* keys and Survey.is_latest.  Ids come from one sequence per table and    *)
(* are never reused.  `last` is the response to the latest request: the    *)
(* operation, its inputs and its outcome.  An outcome is "ok", the detail  *)
(* of an HTTPException the handler raises ("NotFound" for 404,             *)
(* "HierarchyTooDeep" and "HasDependents" for the two 403s), or the name   *)
(* of the exception that escapes the handler unhandled.                    *)
(*                                                                         *)
(* Store semantics (PostgreSQL through the SQLAlchemy ORM):                *)
(*  - a ForeignKey column must be NULL or name an existing row when a row  *)
(*    is inserted or updated, else the commit raises IntegrityError;       *)
(*  - no relationship() in database/models declares a cascade, so          *)
(*    Session.delete of a parent sets the foreign key of each child on a   *)
(*    one-to-many relationship to NULL; on a nullable=False column that    *)
(*    UPDATE raises IntegrityError and the transaction is rolled back.     *)
(*                                                                         *)
(* A handler is modelled as it is defined in its module, with the names it *)
(* uses resolved to their definitions under schemas/ and database/models/; *)
(* which routers main.py mounts and which names schemas/__init__.py        *)
(* exports are not part of the model.                                      *)
(***************************************************************************)
EXTENDS Integers, FiniteSets, Sequences, Bags, TLC

\* Python None / SQL NULL in an integer column (row ids start at 1).
Null == 0

\* Bounds of the model: rows ever inserted per table.
MaxSites == 2
MaxSurveys == 2
MaxAssetTypes == 2
MaxPropertyNames == 1
MaxAssets == 1
MaxProperties == 1
MaxOverlays == 1
MaxPanos == 2
MaxPhotos == 1
MaxHotspots == 1
\* Rows ever inserted in all tables together, where a specification caps it.
MaxRows == 4
\* Requests in flight at the same time.
MaxConns == 2
\* Readings of the clock, where a specification observes it
MaxClock == 6
\* Rows of the table a list request reads.
MaxItems == 5
\* Largest coordinate, in tenths of a degree, of the points and of the boxes
\* that are converted, beside the ends of the valid ranges.
MaxPoint == 6
MaxBox == 2
\* Chunks of an upload, bytes of a chunk and largest size limit.
MaxChunks == 3
MaxChunkBytes == 2
MaxLimit == 4
\* Sub-resources ever inserted, where a specification caps it.
MaxChildren == 2

VARIABLES
    site,                 \* table "site":                [parent_site_id]
    survey,               \* table "survey":              [site_id, is_latest]
    asset_type,           \* table "asset_type":          [stored_icon_filename]
    asset_property_name,  \* table "asset_property_name": [asset_type_id]
    asset,                \* table "asset":               [asset_type_id, survey_id]
    asset_property,       \* table "asset_property":      [asset_id]
    overlay,              \* table "overlay":             [survey_id]
    pano,                 \* table "pano":                [survey_id]
    photo,                \* table "photo":               [survey_id]
    hotspot,              \* table "hotspot": [pano_id, asset_id, destination_pano_id]
    seq,                  \* next id of each table
    last,                 \* response to the latest request
    req,                  \* the bag of requests in flight
    now,                  \* the clock that datetime.utcnow() reads
    stamp,                \* columns created and modified of the observed rows
    call                  \* the latest call of a function: its arguments and result

siteTables == <<site, survey>>
assetTables == <<asset_type, asset_property_name, asset, asset_property>>
imageTables == <<overlay, pano, photo, hotspot>>
tables == <<siteTables, assetTables, imageTables>>
\* The variables that only some specifications observe.
side == <<now, stamp, call>>
vars == <<tables, seq, last, req, side>>

-----------------------------------------------------------------------------
(* Tables *)

EmptyTable == [k \in {} |-> Null]

\* A handler that runs from its first statement to its response with no other
\* request in between leaves no request in flight.  The columns created and
\* modified are left out of the rows, like name and coordinates, wherever the
\* clock is not observed.
Quiet == UNCHANGED <<req, side>>

Put(t, id, row) == [k \in DOMAIN t \cup {id} |-> IF k = id THEN row ELSE t[k]]

Drop(t, id) == [k \in DOMAIN t \ {id} |-> t[k]]

\* A foreign key that the database does not enforce.
FkOk_unenforced(t, v) == TRUE

\* A foreign-key value the database accepts: NULL or the id of a row of t.
FkOk(t, v) == v = Null \/ v \in DOMAIN t

\* The rows of t whose column col refers to row id.
Refs(t, col, id) == {k \in DOMAIN t : t[k][col] = id}

\* The ORM's treatment of the children of a deleted parent: the foreign key
\* is set to NULL.
Nullify(t, col, id) ==
    [k \in DOMAIN t |-> IF t[k][col] = id THEN [t[k] EXCEPT ![col] = Null] ELSE t[k]]

SiteIds == 1..MaxSites
SurveyIds == 1..MaxSurveys
AssetTypeIds == 1..MaxAssetTypes
PropertyNameIds == 1..MaxPropertyNames
AssetIds == 1..MaxAssets
PropertyIds == 1..MaxProperties
OverlayIds == 1..MaxOverlays
PanoIds == 1..MaxPanos
PhotoIds == 1..MaxPhotos
HotspotIds == 1..MaxHotspots

\* The value a client writes into a field that the server is to fill in.
Forged == Null - 1

\* Model(**data) of a create and the setattr loop of an update: each field
\* of data that is a column of the row is written with the client's value.
setattr(row, data) == [c \in DOMAIN row |-> IF c \in data THEN Forged ELSE row[c]]

\* data.dict() of a parsed body: no schema sets Config.extra, so pydantic
\* drops the fields the schema does not declare.
dict_undeclared(schema, body) == body

dict(schema, body) == body \cap schema.declared

\* Response of a request: the operation, the id in its path, its payload,
\* its outcome and, for a successful create, the id of the new row.
Resp(op, id, data, res) ==
    [op |-> op, id |-> id, data |-> data, res |-> res, new |-> Null]

Created(op, id, data, new) ==
    [op |-> op, id |-> id, data |-> data, res |-> "ok", new |-> new]

\* A request that fails changes no table and consumes no id.
Fail(op, id, data, res) ==
    /\ last' = Resp(op, id, data, res)
    /\ UNCHANGED <<tables, seq>>

\* A read: the response only.
Read(op, t, id) ==
    /\ last' = Resp(op, id, <<>>, IF id \in DOMAIN t THEN "ok" ELSE "NotFound")
    /\ UNCHANGED <<tables, seq>>

-----------------------------------------------------------------------------
(* endpoints/helpers/crud.py *)

\* A lookup that never raises 404.
crud_found_always(t, id) == TRUE

\* crud.get and crud.raise_if_not_found raise 404 unless the row exists
\* (ids are positive, so `not result` is true of a missing row only).
crud_found(t, id) == id \in DOMAIN t

\* crud.py defines `delete` twice, first as (db, model_type, id) and then as
\* (db, model); the module binds the name to the definition executed last.
crud_delete_params == <<"db", "model">>

\* A call of crud.delete with these positional arguments raises TypeError
\* unless their number is the number of parameters.
crud_delete_accepts(args) == Len(args) = Len(crud_delete_params)

\* The select of a sub-resource by its id and the id of its parent finds a
\* row.
scoped_any_parent(t, col, id, child_id) == child_id \in DOMAIN t

scoped(t, col, id, child_id) == child_id \in DOMAIN t /\ t[child_id][col] = id

-----------------------------------------------------------------------------
(* endpoints/sites.py *)

\* create_site's guard selecting Site.id instead of Site.parent_site_id.
grandparent_site_id_wrong_column(p) == IF p \in DOMAIN site THEN p ELSE Null

\* The guard of create_site: the parent's own parent_site_id, None when
\* there is no parent row (db.scalar of an empty result).
grandparent_site_id(p) == IF p \in DOMAIN site THEN site[p].parent_site_id ELSE Null

\* POST /sites/
create_site(p) ==
    LET data == [parent_site_id |-> p] IN
    IF p # Null /\ grandparent_site_id(p) # Null
    THEN Fail("create_site", Null, data, "HierarchyTooDeep")
    ELSE IF ~FkOk(site, p)
    THEN Fail("create_site", Null, data, "IntegrityError")
    ELSE /\ seq.site <= MaxSites
         /\ site' = Put(site, seq.site, [parent_site_id |-> p])
         /\ seq' = [seq EXCEPT !.site = @ + 1]
         /\ last' = Created("create_site", Null, data, seq.site)
         /\ UNCHANGED <<survey, assetTables, imageTables>>

\* GET /sites/{id}
get_site(id) == Read("get_site", site, id)

\* PUT /sites/{id}.  data.dict(exclude_unset=True) holds parent_site_id only
\* when the payload sets it; `fields` is the set of payload fields that are
\* set, beside the required name and coordinates.
update_site(id, fields, p) ==
    LET data == [fields |-> fields, parent_site_id |-> p]
        new  == IF "parent_site_id" \in fields THEN p ELSE site[id].parent_site_id
    IN
    IF ~crud_found(site, id)
    THEN Fail("update_site", id, data, "NotFound")
    ELSE IF ~FkOk(site, new)
    THEN Fail("update_site", id, data, "IntegrityError")
    ELSE /\ site' = [site EXCEPT ![id].parent_site_id = new]
         /\ last' = Resp("update_site", id, data, "ok")
         /\ UNCHANGED <<survey, assetTables, imageTables, seq>>

\* delete_site's guard without the sub-site disjunct of its WHERE clause.
any_survey_of_site_only(id) == \E s \in DOMAIN survey : survey[s].site_id = id

\* The guard of delete_site: a Survey joined to a Site that is the site or
\* one of its direct sub-sites.
any_survey(id) ==
    \E s \in DOMAIN survey :
        /\ survey[s].site_id \in DOMAIN site
        /\ \/ site[survey[s].site_id].parent_site_id = id
           \/ survey[s].site_id = id

\* DELETE /sites/{id}.  Site.surveys and Site.sub_sites are one-to-many
\* relationships without cascade: survey.site_id is nullable=False,
\* site.parent_site_id is nullable.
delete_site(id) ==
    IF ~crud_found(site, id)
    THEN Fail("delete_site", id, <<>>, "NotFound")
    ELSE IF any_survey(id)
    THEN Fail("delete_site", id, <<>>, "HasDependents")
    ELSE IF ~crud_delete_accepts(<<"db", "site">>)
    THEN Fail("delete_site", id, <<>>, "TypeError")
    ELSE IF Refs(survey, "site_id", id) # {}
    THEN Fail("delete_site", id, <<>>, "IntegrityError")
    ELSE /\ site' = Drop(Nullify(site, "parent_site_id", id), id)
         /\ last' = Resp("delete_site", id, <<>>, "ok")
         /\ UNCHANGED <<survey, assetTables, imageTables, seq>>

\* POST /sites/{id}/surveys.  The UniqueConstraint("site_id", "is_latest") of
\* the Survey model is an expression statement of the class body, not part of
\* __table_args__: the table carries no such constraint.
create_survey(id, is_latest) ==
    LET data == [is_latest |-> is_latest] IN
    IF ~crud_found(site, id)
    THEN Fail("create_survey", id, data, "NotFound")
    ELSE /\ seq.survey <= MaxSurveys
         /\ survey' = Put(survey, seq.survey, [site_id |-> id, is_latest |-> is_latest])
         /\ seq' = [seq EXCEPT !.survey = @ + 1]
         /\ last' = Created("create_survey", id, data, seq.survey)
         /\ UNCHANGED <<site, assetTables, imageTables>>

-----------------------------------------------------------------------------
(* endpoints/surveys.py *)

\* GET /surveys/{id}
get_survey(id) == Read("get_survey", survey, id)

\* PUT /surveys/{id}.  SurveyUpdate has no site_id; is_latest is required.
update_survey(id, is_latest) ==
    LET data == [is_latest |-> is_latest] IN
    IF ~crud_found(survey, id)
    THEN Fail("update_survey", id, data, "NotFound")
    ELSE /\ survey' = [survey EXCEPT ![id].is_latest = is_latest]
         /\ last' = Resp("update_survey", id, data, "ok")
         /\ UNCHANGED <<site, assetTables, imageTables, seq>>

\* The rows the ORM must detach when a survey is deleted: its overlays,
\* assets, panos and photos (survey_id is nullable=False in all four).
survey_children(id) ==
    <<Refs(overlay, "survey_id", id), Refs(asset, "survey_id", id),
      Refs(pano, "survey_id", id), Refs(photo, "survey_id", id)>>

\* DELETE /surveys/{id}.  db.scalar gives None for a missing survey and
\* crud.delete passes it to Session.delete, which raises
\* UnmappedInstanceError.
delete_survey(id) ==
    IF ~crud_delete_accepts(<<"db", "survey">>)
    THEN Fail("delete_survey", id, <<>>, "TypeError")
    ELSE IF id \notin DOMAIN survey
    THEN Fail("delete_survey", id, <<>>, "UnmappedInstanceError")
    ELSE IF survey_children(id) # <<{}, {}, {}, {}>>
    THEN Fail("delete_survey", id, <<>>, "IntegrityError")
    ELSE /\ survey' = Drop(survey, id)
         /\ last' = Resp("delete_survey", id, <<>>, "ok")
         /\ UNCHANGED <<site, assetTables, imageTables, seq>>

-----------------------------------------------------------------------------
(* endpoints/asset_types.py *)

\* POST /asset-types/
create_asset_type(data) ==
    /\ seq.asset_type <= MaxAssetTypes
    /\ asset_type' = Put(asset_type, seq.asset_type,
                         setattr([stored_icon_filename |-> Null,
                                  original_icon_filename |-> Null], data))
    /\ seq' = [seq EXCEPT !.asset_type = @ + 1]
    /\ last' = Created("create_asset_type", Null, <<>>, seq.asset_type)
    /\ UNCHANGED <<siteTables, asset_property_name, asset, asset_property, imageTables>>

\* GET /asset-types/{id}
get_asset_type(id) == Read("get_asset_type", asset_type, id)

\* PUT /asset-types/{id}: name, description and category only.
update_asset_type(id, data) ==
    IF ~crud_found(asset_type, id)
    THEN Fail("update_asset_type", id, <<>>, "NotFound")
    ELSE /\ asset_type' = [asset_type EXCEPT ![id] = setattr(@, data)]
         /\ last' = Resp("update_asset_type", id, <<>>, "ok")
         /\ UNCHANGED <<siteTables, asset_property_name, asset, asset_property,
                        imageTables, seq>>

\* mimetypes.guess_type(name): the type is guessed from the extension that
\* posixpath.splitext finds, and splitext finds none in a name that is only
\* a leading dot and letters.  A name is <<stem, extension>>.
guess_type(name) ==
    IF name[1] = "" THEN Null
    ELSE CASE name[2] \in {".jpg", ".jpeg"} -> "image/jpeg"
           [] name[2] = ".png" -> "image/png"
           [] name[2] = ".svg" -> "image/svg+xml"
           [] OTHER -> Null

\* utils.validate_file_extension: the outcome for an uploaded file.  The
\* content type is compared with guess_type(extension).casefold(), which
\* raises AttributeError when guess_type gives None.
validate_file_extension(file, validate_content_type, valid_extensions) ==
    LET extension == file.filename[2]
        expected  == guess_type(<<"", extension>>)
    IN
    IF extension \notin valid_extensions THEN "Unprocessable"
    ELSE IF ~validate_content_type THEN "ok"
    ELSE IF expected = Null THEN "AttributeError"
    ELSE IF file.content_type # expected THEN "Unprocessable"
    ELSE "ok"

\* The files a client uploads: an image, an image above the size limit of
\* the upload, a drawing, an image sent as text and a file of another kind.
Files ==
    {[filename |-> <<"icon", ".png">>, content_type |-> "image/png", fits |-> TRUE],
     [filename |-> <<"icon", ".png">>, content_type |-> "image/png", fits |-> FALSE],
     [filename |-> <<"plan", ".svg">>, content_type |-> "image/svg+xml", fits |-> TRUE],
     [filename |-> <<"icon", ".png">>, content_type |-> "text/plain", fits |-> TRUE],
     [filename |-> <<"notes", ".txt">>, content_type |-> "text/plain", fits |-> TRUE]}

\* utils.generate_random_filename: the name a stored file gets.
StoredFile == 1

\* UploadFile.filename, the name the client gave the file, as the value of
\* a filename column.
OriginalFile == 2

\* PUT /asset-types/{id}/icon.  utils.store_uploaded_file raises 413 for a
\* file above MAX_ICON_FILE_SIZE_BYTES.
upload_asset_type_icon_file(id, file) ==
    LET valid == validate_file_extension(file, TRUE, {".jpg", ".jpeg", ".png", ".svg"})
        data  == [file |-> file]
    IN
    IF ~crud_found(asset_type, id)
    THEN Fail("upload_asset_type_icon_file", id, data, "NotFound")
    ELSE IF valid # "ok"
    THEN Fail("upload_asset_type_icon_file", id, data, valid)
    ELSE IF ~file.fits
    THEN Fail("upload_asset_type_icon_file", id, data, "TooLarge")
    ELSE /\ asset_type' = [asset_type EXCEPT ![id].stored_icon_filename = StoredFile,
                                             ![id].original_icon_filename = OriginalFile]
         /\ last' = Resp("upload_asset_type_icon_file", id, data, "ok")
         /\ UNCHANGED <<siteTables, asset_property_name, asset, asset_property,
                        imageTables, seq>>

\* The guard of delete_asset_type.
any_asset(id) == \E a \in DOMAIN asset : asset[a].asset_type_id = id

\* DELETE /asset-types/{id}.  AssetType.assets and
\* AssetType.asset_property_names are one-to-many relationships without
\* cascade on nullable=False columns.
delete_asset_type(id) ==
    IF ~crud_found(asset_type, id)
    THEN Fail("delete_asset_type", id, <<>>, "NotFound")
    ELSE IF any_asset(id)
    THEN Fail("delete_asset_type", id, <<>>, "HasDependents")
    ELSE IF ~crud_delete_accepts(<<"db", "asset_type">>)
    THEN Fail("delete_asset_type", id, <<>>, "TypeError")
    ELSE IF Refs(asset, "asset_type_id", id) # {}
            \/ Refs(asset_property_name, "asset_type_id", id) # {}
    THEN Fail("delete_asset_type", id, <<>>, "IntegrityError")
    ELSE /\ asset_type' = Drop(asset_type, id)
         /\ last' = Resp("delete_asset_type", id, <<>>, "ok")
         /\ UNCHANGED <<siteTables, asset_property_name, asset, asset_property,
                        imageTables, seq>>

\* GET /asset-types/{id}/icon: 404 from crud.get, and 404 while no icon
\* has been stored.
serve_asset_type_icon_file(id) ==
    /\ last' = Resp("serve_asset_type_icon_file", id, <<>>,
                    IF ~crud_found(asset_type, id) THEN "NotFound"
                    ELSE IF asset_type[id].stored_icon_filename = Null THEN "NotFound"
                    ELSE "ok")
    /\ UNCHANGED <<tables, seq>>

\* POST /asset-types/{id}/property-names
create_property_name(id) ==
    IF ~crud_found(asset_type, id)
    THEN Fail("create_property_name", id, <<>>, "NotFound")
    ELSE /\ seq.asset_property_name <= MaxPropertyNames
         /\ asset_property_name' =
                Put(asset_property_name, seq.asset_property_name, [asset_type_id |-> id])
         /\ seq' = [seq EXCEPT !.asset_property_name = @ + 1]
         /\ last' = Created("create_property_name", id, <<>>, seq.asset_property_name)
         /\ UNCHANGED <<siteTables, asset_type, asset, asset_property, imageTables>>

\* PUT /asset-types/{id}/property-names/{property_name_id}
update_property_name(id, property_name_id, data) ==
    LET path == [property_name_id |-> property_name_id] IN
    IF ~crud_found(asset_type, id)
    THEN Fail("update_property_name", id, path, "NotFound")
    ELSE IF ~scoped(asset_property_name, "asset_type_id", id, property_name_id)
    THEN Fail("update_property_name", id, path, "NotFound")
    ELSE /\ asset_property_name' =
                [asset_property_name EXCEPT ![property_name_id] = setattr(@, data)]
         /\ last' = Resp("update_property_name", id, path, "ok")
         /\ UNCHANGED <<siteTables, asset_type, asset, asset_property, imageTables, seq>>

\* DELETE /asset-types/{id}/property-names/{property_name_id}:
\* crud.delete(db, prop)
delete_property_name(id, property_name_id) ==
    LET path == [property_name_id |-> property_name_id] IN
    IF ~crud_found(asset_type, id)
    THEN Fail("delete_property_name", id, path, "NotFound")
    ELSE IF ~scoped(asset_property_name, "asset_type_id", id, property_name_id)
    THEN Fail("delete_property_name", id, path, "NotFound")
    ELSE IF ~crud_delete_accepts(<<"db", "prop">>)
    THEN Fail("delete_property_name", id, path, "TypeError")
    ELSE /\ asset_property_name' = Drop(asset_property_name, property_name_id)
         /\ last' = Resp("delete_property_name", id, path, "ok")
         /\ UNCHANGED <<siteTables, asset_type, asset, asset_property, imageTables, seq>>

-----------------------------------------------------------------------------
(* endpoints/assets.py, and create_asset of endpoints/surveys.py *)

\* POST /surveys/{id}/assets/
create_asset(id, asset_type_id) ==
    LET data == [asset_type_id |-> asset_type_id] IN
    IF ~crud_found(survey, id)
    THEN Fail("create_asset", id, data, "NotFound")
    ELSE IF ~FkOk(asset_type, asset_type_id)
    THEN Fail("create_asset", id, data, "IntegrityError")
    ELSE /\ seq.asset <= MaxAssets
         /\ asset' = Put(asset, seq.asset, [asset_type_id |-> asset_type_id, survey_id |-> id])
         /\ seq' = [seq EXCEPT !.asset = @ + 1]
         /\ last' = Created("create_asset", id, data, seq.asset)
         /\ UNCHANGED <<siteTables, asset_type, asset_property_name, asset_property,
                        imageTables>>

\* GET /assets/{id}
get_asset(id) == Read("get_asset", asset, id)

\* The fields of the request body AssetUpdate (AssetBase): all but description
\* have no default, so FastAPI answers 422 to a body that lacks one of them
\* before the handler runs.
AssetUpdate ==
    [declared |-> {"name", "description", "coordinates", "asset_type_id", "level"},
     required |-> {"name", "coordinates", "asset_type_id", "level"}]

\* PUT /assets/{id}.  `body` is the set of fields the request body holds and
\* asset_type_id the value of that field; AssetUpdate has no survey_id.
update_asset(id, body, asset_type_id) ==
    LET data == [body |-> body, asset_type_id |-> asset_type_id] IN
    IF ~(AssetUpdate.required \subseteq body)
    THEN Fail("update_asset", id, data, "ValidationError")
    ELSE IF ~crud_found(asset, id)
    THEN Fail("update_asset", id, data, "NotFound")
    ELSE IF ~FkOk(asset_type, asset_type_id)
    THEN Fail("update_asset", id, data, "IntegrityError")
    ELSE /\ asset' = [asset EXCEPT ![id] =
                          [setattr(@, dict(AssetUpdate, body) \ {"asset_type_id"})
                           EXCEPT !.asset_type_id = asset_type_id]]
         /\ last' = Resp("update_asset", id, data, "ok")
         /\ UNCHANGED <<siteTables, asset_type, asset_property_name, asset_property,
                        imageTables, seq>>

\* DELETE /assets/{id}: crud.delete(db, models.Asset, id).  Asset.asset_properties
\* (nullable=False) and Asset.asset_hotspots (nullable) are one-to-many
\* relationships without cascade.
delete_asset(id) ==
    IF ~crud_delete_accepts(<<"db", "models.Asset", "id">>)
    THEN Fail("delete_asset", id, <<>>, "TypeError")
    ELSE IF ~crud_found(asset, id)
    THEN Fail("delete_asset", id, <<>>, "NotFound")
    ELSE IF Refs(asset_property, "asset_id", id) # {}
    THEN Fail("delete_asset", id, <<>>, "IntegrityError")
    ELSE /\ asset' = Drop(asset, id)
         /\ hotspot' = Nullify(hotspot, "asset_id", id)
         /\ last' = Resp("delete_asset", id, <<>>, "ok")
         /\ UNCHANGED <<siteTables, asset_type, asset_property_name, asset_property,
                        overlay, pano, photo, seq>>

\* POST /assets/{id}/properties
create_property(id) ==
    IF ~crud_found(asset, id)
    THEN Fail("create_property", id, <<>>, "NotFound")
    ELSE /\ seq.asset_property <= MaxProperties
         /\ asset_property' = Put(asset_property, seq.asset_property, [asset_id |-> id])
         /\ seq' = [seq EXCEPT !.asset_property = @ + 1]
         /\ last' = Created("create_property", id, <<>>, seq.asset_property)
         /\ UNCHANGED <<siteTables, asset_type, asset_property_name, asset, imageTables>>

\* PUT /assets/{id}/properties/{property_id}
update_property(id, property_id, data) ==
    LET path == [property_id |-> property_id] IN
    IF ~crud_found(asset, id)
    THEN Fail("update_property", id, path, "NotFound")
    ELSE IF ~scoped(asset_property, "asset_id", id, property_id)
    THEN Fail("update_property", id, path, "NotFound")
    ELSE /\ asset_property' = [asset_property EXCEPT ![property_id] = setattr(@, data)]
         /\ last' = Resp("update_property", id, path, "ok")
         /\ UNCHANGED <<siteTables, asset_type, asset_property_name, asset,
                        imageTables, seq>>

\* DELETE /assets/{id}/properties/{property_id}: crud.delete(db, prop)
delete_asset_property(id, property_id) ==
    LET path == [property_id |-> property_id] IN
    IF ~crud_found(asset, id)
    THEN Fail("delete_asset_property", id, path, "NotFound")
    ELSE IF ~scoped(asset_property, "asset_id", id, property_id)
    THEN Fail("delete_asset_property", id, path, "NotFound")
    ELSE IF ~crud_delete_accepts(<<"db", "prop">>)
    THEN Fail("delete_asset_property", id, path, "TypeError")
    ELSE /\ asset_property' = Drop(asset_property, property_id)
         /\ last' = Resp("delete_asset_property", id, path, "ok")
         /\ UNCHANGED <<siteTables, asset_type, asset_property_name, asset,
                        imageTables, seq>>

-----------------------------------------------------------------------------
(* endpoints/overlays.py, and create_overlay of endpoints/surveys.py *)

\* POST /surveys/{id}/overlays/
create_overlay(id, data) ==
    IF ~crud_found(survey, id)
    THEN Fail("create_overlay", id, <<>>, "NotFound")
    ELSE /\ seq.overlay <= MaxOverlays
         /\ overlay' = Put(overlay, seq.overlay,
                         [setattr([survey_id |-> Null, stored_filename |-> Null,
                                   original_filename |-> Null], data)
                          EXCEPT !.survey_id = id])
         /\ seq' = [seq EXCEPT !.overlay = @ + 1]
         /\ last' = Created("create_overlay", id, <<>>, seq.overlay)
         /\ UNCHANGED <<siteTables, assetTables, pano, photo, hotspot>>

\* GET /overlays/{id}
get_overlay(id) == Read("get_overlay", overlay, id)

\* PUT /overlays/{id}: name, extent and level only.
update_overlay(id, data) ==
    IF ~crud_found(overlay, id)
    THEN Fail("update_overlay", id, <<>>, "NotFound")
    ELSE /\ overlay' = [overlay EXCEPT ![id] = setattr(@, data)]
         /\ last' = Resp("update_overlay", id, <<>>, "ok")
         /\ UNCHANGED <<siteTables, assetTables, pano, photo, hotspot, seq>>

\* GET /overlays/{id}/file
serve_overlay_file(id) ==
    /\ last' = Resp("serve_overlay_file", id, <<>>,
                    IF ~crud_found(overlay, id) THEN "NotFound"
                    ELSE IF overlay[id].stored_filename = Null THEN "NotFound"
                    ELSE "ok")
    /\ UNCHANGED <<tables, seq>>

\* PUT /overlays/{id}/file.  utils.store_uploaded_file raises 413 above
\* MAX_OVERLAY_SIZE_BYTES_SVG for a drawing, MAX_OVERLAY_SIZE_BYTES otherwise.
upload_overlay_file(id, file) ==
    LET valid == validate_file_extension(file, TRUE, {".jpg", ".jpeg", ".png", ".svg"})
        data  == [file |-> file]
    IN
    IF ~crud_found(overlay, id)
    THEN Fail("upload_overlay_file", id, data, "NotFound")
    ELSE IF valid # "ok"
    THEN Fail("upload_overlay_file", id, data, valid)
    ELSE IF ~file.fits
    THEN Fail("upload_overlay_file", id, data, "TooLarge")
    ELSE /\ overlay' = [overlay EXCEPT ![id].stored_filename = StoredFile,
                                       ![id].original_filename = OriginalFile]
         /\ last' = Resp("upload_overlay_file", id, data, "ok")
         /\ UNCHANGED <<siteTables, assetTables, pano, photo, hotspot, seq>>

\* DELETE /overlays/{id}: crud.delete(db, models.Overlay, id)
delete_overlay(id) ==
    IF ~crud_delete_accepts(<<"db", "models.Overlay", "id">>)
    THEN Fail("delete_overlay", id, <<>>, "TypeError")
    ELSE IF ~crud_found(overlay, id)
    THEN Fail("delete_overlay", id, <<>>, "NotFound")
    ELSE /\ overlay' = Drop(overlay, id)
         /\ last' = Resp("delete_overlay", id, <<>>, "ok")
         /\ UNCHANGED <<siteTables, assetTables, pano, photo, hotspot, seq>>

-----------------------------------------------------------------------------
(* endpoints/panos.py, and create_pano of endpoints/surveys.py *)

\* POST /surveys/{id}/panos/
create_pano(id, data) ==
    IF ~crud_found(survey, id)
    THEN Fail("create_pano", id, <<>>, "NotFound")
    ELSE /\ seq.pano <= MaxPanos
         /\ pano' = Put(pano, seq.pano,
                      [setattr([survey_id |-> Null, stored_filename |-> Null,
                                original_filename |-> Null], data)
                       EXCEPT !.survey_id = id])
         /\ seq' = [seq EXCEPT !.pano = @ + 1]
         /\ last' = Created("create_pano", id, <<>>, seq.pano)
         /\ UNCHANGED <<siteTables, assetTables, overlay, photo, hotspot>>

\* GET /panos/{id}
get_pano(id) == Read("get_pano", pano, id)

\* PUT /panos/{id}: the fields of PanoBase only.
update_pano(id, data) ==
    IF ~crud_found(pano, id)
    THEN Fail("update_pano", id, <<>>, "NotFound")
    ELSE /\ pano' = [pano EXCEPT ![id] = setattr(@, data)]
         /\ last' = Resp("update_pano", id, <<>>, "ok")
         /\ UNCHANGED <<siteTables, assetTables, overlay, photo, hotspot, seq>>

\* GET /panos/{id}/file
serve_pano_file(id) ==
    /\ last' = Resp("serve_pano_file", id, <<>>,
                    IF ~crud_found(pano, id) THEN "NotFound"
                    ELSE IF pano[id].stored_filename = Null THEN "NotFound"
                    ELSE "ok")
    /\ UNCHANGED <<tables, seq>>

\* PUT /panos/{id}/file.  utils.store_uploaded_file raises 413 above
\* MAX_PANO_FILE_SIZE_BYTES.
upload_pano_file(id, file) ==
    LET valid == validate_file_extension(file, TRUE, {".jpg", ".jpeg", ".png"})
        data  == [file |-> file]
    IN
    IF ~crud_found(pano, id)
    THEN Fail("upload_pano_file", id, data, "NotFound")
    ELSE IF valid # "ok"
    THEN Fail("upload_pano_file", id, data, valid)
    ELSE IF ~file.fits
    THEN Fail("upload_pano_file", id, data, "TooLarge")
    ELSE /\ pano' = [pano EXCEPT ![id].stored_filename = StoredFile,
                                 ![id].original_filename = OriginalFile]
         /\ last' = Resp("upload_pano_file", id, data, "ok")
         /\ UNCHANGED <<siteTables, assetTables, overlay, photo, hotspot, seq>>

\* DELETE /panos/{id}: crud.delete(db, models.Pano, id).  Pano.hotspots
\* (pano_id, nullable=False) and Pano.source_hotspots (destination_pano_id,
\* nullable) are one-to-many relationships without cascade.
delete_pano(id) ==
    IF ~crud_delete_accepts(<<"db", "models.Pano", "id">>)
    THEN Fail("delete_pano", id, <<>>, "TypeError")
    ELSE IF ~crud_found(pano, id)
    THEN Fail("delete_pano", id, <<>>, "NotFound")
    ELSE IF Refs(hotspot, "pano_id", id) # {}
    THEN Fail("delete_pano", id, <<>>, "IntegrityError")
    ELSE /\ pano' = Drop(pano, id)
         /\ hotspot' = Nullify(hotspot, "destination_pano_id", id)
         /\ last' = Resp("delete_pano", id, <<>>, "ok")
         /\ UNCHANGED <<siteTables, assetTables, overlay, photo, seq>>

\* POST /panos/{id}/hotspots/.  HotspotCreate declares asset_id and
\* destination_pano_id as int | None without a validator; the handler and the
\* Hotspot table check nothing beyond the foreign keys.
create_hotspot(id, asset_id, destination_pano_id) ==
    LET data == [asset_id |-> asset_id, destination_pano_id |-> destination_pano_id] IN
    IF ~crud_found(pano, id)
    THEN Fail("create_hotspot", id, data, "NotFound")
    ELSE IF ~FkOk(asset, asset_id) \/ ~FkOk(pano, destination_pano_id)
    THEN Fail("create_hotspot", id, data, "IntegrityError")
    ELSE /\ seq.hotspot <= MaxHotspots
         /\ hotspot' = Put(hotspot, seq.hotspot,
                           [pano_id |-> id, asset_id |-> asset_id,
                            destination_pano_id |-> destination_pano_id])
         /\ seq' = [seq EXCEPT !.hotspot = @ + 1]
         /\ last' = Created("create_hotspot", id, data, seq.hotspot)
         /\ UNCHANGED <<siteTables, assetTables, overlay, pano, photo>>

\* PUT /panos/{id}/hotspots/{hotspot_id}
update_hotspot(id, hotspot_id, data) ==
    LET path == [hotspot_id |-> hotspot_id] IN
    IF ~crud_found(pano, id)
    THEN Fail("update_hotspot", id, path, "NotFound")
    ELSE IF ~scoped(hotspot, "pano_id", id, hotspot_id)
    THEN Fail("update_hotspot", id, path, "NotFound")
    ELSE /\ hotspot' = [hotspot EXCEPT ![hotspot_id] = setattr(@, data)]
         /\ last' = Resp("update_hotspot", id, path, "ok")
         /\ UNCHANGED <<siteTables, assetTables, overlay, pano, photo, seq>>

\* DELETE /panos/{id}/hotspots/{hotspot_id}: crud.delete(db, hotspot)
delete_hotspot(id, hotspot_id) ==
    LET data == [hotspot_id |-> hotspot_id] IN
    IF ~crud_found(pano, id)
    THEN Fail("delete_hotspot", id, data, "NotFound")
    ELSE IF ~scoped(hotspot, "pano_id", id, hotspot_id)
    THEN Fail("delete_hotspot", id, data, "NotFound")
    ELSE IF ~crud_delete_accepts(<<"db", "hotspot">>)
    THEN Fail("delete_hotspot", id, data, "TypeError")
    ELSE /\ hotspot' = Drop(hotspot, hotspot_id)
         /\ last' = Resp("delete_hotspot", id, data, "ok")
         /\ UNCHANGED <<siteTables, assetTables, overlay, pano, photo, seq>>

-----------------------------------------------------------------------------
(* endpoints/photos.py, and create_photo of endpoints/surveys.py *)

\* POST /surveys/{id}/photos/
create_photo(id) ==
    IF ~crud_found(survey, id)
    THEN Fail("create_photo", id, <<>>, "NotFound")
    ELSE /\ seq.photo <= MaxPhotos
         /\ photo' = Put(photo, seq.photo, [survey_id |-> id])
         /\ seq' = [seq EXCEPT !.photo = @ + 1]
         /\ last' = Created("create_photo", id, <<>>, seq.photo)
         /\ UNCHANGED <<siteTables, assetTables, overlay, pano, hotspot>>

\* GET /photos/{id}
get_photo(id) == Read("get_photo", photo, id)

\* DELETE /photos/{id}: _get, then db.delete and db.commit in the handler.
delete_photo(id) ==
    IF id \notin DOMAIN photo
    THEN Fail("delete_photo", id, <<>>, "NotFound")
    ELSE /\ photo' = Drop(photo, id)
         /\ last' = Resp("delete_photo", id, <<>>, "ok")
         /\ UNCHANGED <<siteTables, assetTables, overlay, pano, hotspot, seq>>

-----------------------------------------------------------------------------
(* Specification of the site hierarchy and its surveys: every request of   *)
(* endpoints/sites.py and the survey requests of endpoints/surveys.py,     *)
(* from the empty database.                                                *)

Init ==
    /\ site = EmptyTable
    /\ survey = EmptyTable
    /\ asset_type = EmptyTable
    /\ asset_property_name = EmptyTable
    /\ asset = EmptyTable
    /\ asset_property = EmptyTable
    /\ overlay = EmptyTable
    /\ pano = EmptyTable
    /\ photo = EmptyTable
    /\ hotspot = EmptyTable
    /\ seq = [site |-> 1, survey |-> 1, asset_type |-> 1, asset_property_name |-> 1,
              asset |-> 1, asset_property |-> 1, overlay |-> 1, pano |-> 1,
              photo |-> 1, hotspot |-> 1]
    /\ last = Resp("none", Null, <<>>, "ok")
    /\ req = EmptyBag
    /\ now = 1
    /\ stamp = EmptyTable
    /\ call = <<>>

Next ==
    \/ \E p \in {Null} \cup SiteIds : create_site(p) /\ Quiet
    \/ \E id \in SiteIds : update_site(id, {}, Null) /\ Quiet
    \/ \E id \in SiteIds, p \in {Null} \cup SiteIds : update_site(id, {"parent_site_id"}, p) /\ Quiet
    \/ \E id \in SiteIds : delete_site(id) /\ Quiet
    \/ \E id \in SiteIds, is_latest \in BOOLEAN : create_survey(id, is_latest) /\ Quiet
    \/ \E id \in SurveyIds, is_latest \in BOOLEAN : update_survey(id, is_latest) /\ Quiet
    \/ \E id \in SurveyIds : delete_survey(id) /\ Quiet

Spec == Init /\ [][Next]_vars

-----------------------------------------------------------------------------
(* Specification of the data of one survey: the requests on asset types,   *)
(* assets, overlays, panos, photos and hotspots and the deletion of the    *)
(* survey, from the database that holds one site and its one survey (the   *)
(* state of Spec after create_site and create_survey).                     *)

InitSurveyed ==
    /\ site = Put(EmptyTable, 1, [parent_site_id |-> Null])
    /\ survey = Put(EmptyTable, 1, [site_id |-> 1, is_latest |-> FALSE])
    /\ asset_type = EmptyTable
    /\ asset_property_name = EmptyTable
    /\ asset = EmptyTable
    /\ asset_property = EmptyTable
    /\ overlay = EmptyTable
    /\ pano = EmptyTable
    /\ photo = EmptyTable
    /\ hotspot = EmptyTable
    /\ seq = [site |-> 2, survey |-> 2, asset_type |-> 1, asset_property_name |-> 1,
              asset |-> 1, asset_property |-> 1, overlay |-> 1, pano |-> 1,
              photo |-> 1, hotspot |-> 1]
    /\ last = Created("create_survey", 1, [is_latest |-> FALSE], 1)
    /\ req = EmptyBag
    /\ now = 1
    /\ stamp = EmptyTable
    /\ call = <<>>

NextData ==
    \/ create_asset_type({}) /\ Quiet
    \/ \E id \in AssetTypeIds : get_asset_type(id) /\ Quiet
    \/ \E id \in AssetTypeIds : update_asset_type(id, {}) /\ Quiet
    \/ \E id \in AssetTypeIds : delete_asset_type(id) /\ Quiet
    \/ \E id \in AssetTypeIds : create_property_name(id) /\ Quiet
    \/ \E id \in SurveyIds, t \in AssetTypeIds : create_asset(id, t) /\ Quiet
    \/ \E id \in AssetIds : get_asset(id) /\ Quiet
    \/ \E id \in AssetIds, t \in AssetTypeIds :
          update_asset(id, AssetUpdate.required, t) /\ Quiet
    \/ \E id \in AssetIds : delete_asset(id) /\ Quiet
    \/ \E id \in AssetIds : create_property(id) /\ Quiet
    \/ \E id \in SurveyIds : create_overlay(id, {}) /\ Quiet
    \/ \E id \in OverlayIds : get_overlay(id) /\ Quiet
    \/ \E id \in OverlayIds : update_overlay(id, {}) /\ Quiet
    \/ \E id \in OverlayIds : delete_overlay(id) /\ Quiet
    \/ \E id \in SurveyIds : create_pano(id, {}) /\ Quiet
    \/ \E id \in PanoIds : get_pano(id) /\ Quiet
    \/ \E id \in PanoIds : update_pano(id, {}) /\ Quiet
    \/ \E id \in PanoIds : delete_pano(id) /\ Quiet
    \/ \E id \in PanoIds, a \in {Null} \cup AssetIds, d \in {Null} \cup PanoIds :
          create_hotspot(id, a, d) /\ Quiet
    \/ \E id \in PanoIds, h \in HotspotIds : delete_hotspot(id, h) /\ Quiet
    \/ \E id \in SurveyIds : create_photo(id) /\ Quiet
    \/ \E id \in PhotoIds : get_photo(id) /\ Quiet
    \/ \E id \in PhotoIds : delete_photo(id) /\ Quiet
    \/ \E id \in SurveyIds : get_survey(id) /\ Quiet
    \/ \E id \in SurveyIds : delete_survey(id) /\ Quiet

SpecData == InitSurveyed /\ [][NextData]_vars

-----------------------------------------------------------------------------
(* Specification of the creation of rows: every create request, and the    *)
(* deletes of the two roots that a create names as parent, from the empty  *)
(* database, while fewer than MaxRows rows have been inserted.             *)

\* The number of rows inserted so far (ids are handed out from 1).
Inserted ==
    (seq.site - 1) + (seq.survey - 1) + (seq.asset_type - 1)
        + (seq.asset_property_name - 1) + (seq.asset - 1) + (seq.asset_property - 1)
        + (seq.overlay - 1) + (seq.pano - 1) + (seq.photo - 1) + (seq.hotspot - 1)

\* An insert happens only below the cap; a request that fails always runs.
Capped == (last'.res = "ok" /\ last'.new # Null) => Inserted < MaxRows

NextCreate ==
    \/ \E p \in {Null} \cup SiteIds : create_site(p) /\ Capped /\ Quiet
    \/ \E id \in SiteIds : delete_site(id) /\ Quiet
    \/ \E id \in SiteIds : create_survey(id, FALSE) /\ Capped /\ Quiet
    \/ create_asset_type({}) /\ Capped /\ Quiet
    \/ \E id \in AssetTypeIds : delete_asset_type(id) /\ Quiet
    \/ \E id \in AssetTypeIds : create_property_name(id) /\ Capped /\ Quiet
    \/ \E id \in SurveyIds, t \in AssetTypeIds : create_asset(id, t) /\ Capped /\ Quiet
    \/ \E id \in AssetIds : create_property(id) /\ Capped /\ Quiet
    \/ \E id \in SurveyIds : create_overlay(id, {}) /\ Capped /\ Quiet
    \/ \E id \in SurveyIds : create_pano(id, {}) /\ Capped /\ Quiet
    \/ \E id \in SurveyIds : create_photo(id) /\ Capped /\ Quiet
    \/ \E id \in PanoIds, a \in {Null} \cup AssetIds, d \in {Null} \cup PanoIds :
          create_hotspot(id, a, d) /\ Capped /\ Quiet

SpecCreate == Init /\ [][NextCreate]_vars

-----------------------------------------------------------------------------
(* Concurrent requests.  A handler is a coroutine: between two awaits      *)
(* another request may run.  Each handler below is cut at the await that    *)
(* separates its lookups (crud.get, crud.raise_if_not_found, the guard      *)
(* query) from its commit.  A request holds one session (get_db), whose     *)
(* transaction PostgreSQL runs at READ COMMITTED: the statements of the     *)
(* commit see the rows other requests have committed since the lookups,     *)
(* and the foreign keys are checked against them.                           *)

\* A request between its lookups and its commit: the handler, its path id
\* and payload, and the row it loaded (Null when it loaded none).
Request(op, id, data, loaded) == [op |-> op, id |-> id, data |-> data, loaded |-> loaded]

\* The number of in-flight requests of handler op (each will insert a row).
Pending(op) == BagCardinality([r \in {q \in BagToSet(req) : q.op = op} |-> req[r]])

\* The lookups passed: the request now waits for its commit.
Begin(op, id, data, loaded) ==
    /\ BagCardinality(req) < MaxConns
    /\ req' = req (+) SetToBag({Request(op, id, data, loaded)})
    /\ UNCHANGED <<tables, seq, last, side>>

\* A lookup raised: the response, and nothing else.
Reject(op, id, data, res) == Fail(op, id, data, res) /\ Quiet

\* Request r leaves the bag with its response.
Done(r) == req' = req (-) SetToBag({r})

\* The commit of request r ended with `res` and changed nothing (an
\* exception rolls the transaction back when the session is closed).
Finish(r, res) ==
    /\ last' = Resp(r.op, r.id, r.data, res)
    /\ Done(r)
    /\ UNCHANGED <<tables, seq, side>>

\* create_survey up to crud.raise_if_not_found
create_survey_begin(id, is_latest) ==
    LET data == [is_latest |-> is_latest] IN
    IF ~crud_found(site, id)
    THEN Reject("create_survey", id, data, "NotFound")
    ELSE /\ seq.survey + Pending("create_survey") <= MaxSurveys
         /\ Begin("create_survey", id, data, Null)

\* create_survey from crud.create: the INSERT checks survey.site_id.
create_survey_commit(r) ==
    /\ BagIn(r, req) /\ r.op = "create_survey"
    /\ IF ~FkOk(site, r.id)
       THEN Finish(r, "IntegrityError")
       ELSE /\ survey' = Put(survey, seq.survey,
                             [site_id |-> r.id, is_latest |-> r.data.is_latest])
            /\ seq' = [seq EXCEPT !.survey = @ + 1]
            /\ last' = Created("create_survey", r.id, r.data, seq.survey)
            /\ Done(r)
            /\ UNCHANGED <<site, assetTables, imageTables, side>>

\* update_survey up to crud.get
update_survey_begin(id, is_latest) ==
    LET data == [is_latest |-> is_latest] IN
    IF ~crud_found(survey, id)
    THEN Reject("update_survey", id, data, "NotFound")
    ELSE Begin("update_survey", id, data, survey[id])

\* update_survey from crud.update: the flush issues UPDATE survey SET <the
\* attributes that differ from the loaded row, and modified> WHERE id = :id
\* and raises StaleDataError when the statement matches no row.
update_survey_commit(r) ==
    /\ BagIn(r, req) /\ r.op = "update_survey"
    /\ IF r.id \notin DOMAIN survey
       THEN Finish(r, "StaleDataError")
       ELSE /\ survey' = IF r.data.is_latest # r.loaded.is_latest
                         THEN [survey EXCEPT ![r.id].is_latest = r.data.is_latest]
                         ELSE survey
            /\ last' = Resp("update_survey", r.id, r.data, "ok")
            /\ Done(r)
            /\ UNCHANGED <<site, assetTables, imageTables, seq, side>>

\* delete_site up to its guard
delete_site_begin(id) ==
    IF ~crud_found(site, id)
    THEN Reject("delete_site", id, <<>>, "NotFound")
    ELSE IF any_survey(id)
    THEN Reject("delete_site", id, <<>>, "HasDependents")
    ELSE Begin("delete_site", id, <<>>, Null)

\* delete_site from crud.delete.  The flush loads Site.surveys and
\* Site.sub_sites as they are now; a DELETE that matches no row is a warning.
delete_site_commit(r) ==
    /\ BagIn(r, req) /\ r.op = "delete_site"
    /\ IF ~crud_delete_accepts(<<"db", "site">>)
       THEN Finish(r, "TypeError")
       ELSE IF r.id \notin DOMAIN site
       THEN Finish(r, "ok")
       ELSE IF Refs(survey, "site_id", r.id) # {}
       THEN Finish(r, "IntegrityError")
       ELSE /\ site' = Drop(Nullify(site, "parent_site_id", r.id), r.id)
            /\ last' = Resp("delete_site", r.id, <<>>, "ok")
            /\ Done(r)
            /\ UNCHANGED <<survey, assetTables, imageTables, seq, side>>

\* create_asset up to crud.raise_if_not_found
create_asset_begin(id, asset_type_id) ==
    LET data == [asset_type_id |-> asset_type_id] IN
    IF ~crud_found(survey, id)
    THEN Reject("create_asset", id, data, "NotFound")
    ELSE /\ seq.asset + Pending("create_asset") <= MaxAssets
         /\ Begin("create_asset", id, data, Null)

\* create_asset from crud.create: the INSERT checks asset.survey_id and
\* asset.asset_type_id.
create_asset_commit(r) ==
    /\ BagIn(r, req) /\ r.op = "create_asset"
    /\ IF ~(r.id \in DOMAIN survey /\ r.data.asset_type_id \in DOMAIN asset_type)
       THEN Finish(r, "IntegrityError")
       ELSE /\ asset' = Put(asset, seq.asset,
                            [asset_type_id |-> r.data.asset_type_id, survey_id |-> r.id])
            /\ seq' = [seq EXCEPT !.asset = @ + 1]
            /\ last' = Created("create_asset", r.id, r.data, seq.asset)
            /\ Done(r)
            /\ UNCHANGED <<siteTables, asset_type, asset_property_name, asset_property,
                           imageTables, side>>

\* delete_asset_type up to its guard
delete_asset_type_begin(id) ==
    IF ~crud_found(asset_type, id)
    THEN Reject("delete_asset_type", id, <<>>, "NotFound")
    ELSE IF any_asset(id)
    THEN Reject("delete_asset_type", id, <<>>, "HasDependents")
    ELSE Begin("delete_asset_type", id, <<>>, Null)

\* delete_asset_type from crud.delete
delete_asset_type_commit(r) ==
    /\ BagIn(r, req) /\ r.op = "delete_asset_type"
    /\ IF ~crud_delete_accepts(<<"db", "asset_type">>)
       THEN Finish(r, "TypeError")
       ELSE IF r.id \notin DOMAIN asset_type
       THEN Finish(r, "ok")
       ELSE IF Refs(asset, "asset_type_id", r.id) # {}
               \/ Refs(asset_property_name, "asset_type_id", r.id) # {}
       THEN Finish(r, "IntegrityError")
       ELSE /\ asset_type' = Drop(asset_type, r.id)
            /\ last' = Resp("delete_asset_type", r.id, <<>>, "ok")
            /\ Done(r)
            /\ UNCHANGED <<siteTables, asset_property_name, asset, asset_property,
                           imageTables, seq, side>>

\* A handler that runs without interruption while others are in flight.
Alone == UNCHANGED <<req, side>>

(* Specification of concurrent creates, updates and deletes of the surveys *)
(* of a site, from the database that holds one site and its one survey.    *)
NextConc ==
    \/ \E id \in SiteIds, is_latest \in BOOLEAN : create_survey_begin(id, is_latest)
    \/ \E r \in BagToSet(req) : create_survey_commit(r)
    \/ \E id \in SurveyIds, is_latest \in BOOLEAN : update_survey_begin(id, is_latest)
    \/ \E r \in BagToSet(req) : update_survey_commit(r)
    \/ \E id \in SurveyIds : delete_survey(id) /\ Alone

SpecConc == InitSurveyed /\ [][NextConc]_vars

(* Specification of the guarded deletes of a site and of an asset type     *)
(* against concurrent creates of their dependents, from the empty          *)
(* database, while fewer than MaxRows rows have been inserted.             *)
NextGuard ==
    \/ create_site(Null) /\ Capped /\ Alone
    \/ \E id \in SiteIds : Inserted < MaxRows /\ create_survey_begin(id, FALSE)
    \/ \E r \in BagToSet(req) : create_survey_commit(r)
    \/ \E id \in SiteIds : delete_site_begin(id)
    \/ \E r \in BagToSet(req) : delete_site_commit(r)
    \/ create_asset_type({}) /\ Capped /\ Alone
    \/ \E id \in SurveyIds, t \in AssetTypeIds :
          Inserted < MaxRows /\ create_asset_begin(id, t)
    \/ \E r \in BagToSet(req) : create_asset_commit(r)
    \/ \E id \in AssetTypeIds : delete_asset_type_begin(id)
    \/ \E r \in BagToSet(req) : delete_asset_type_commit(r)

SpecGuard == Init /\ [][NextGuard]_vars

-----------------------------------------------------------------------------
(* Timestamps.  Every table has the columns created (nullable=False) and    *)
(* modified (nullable) of database/models/_base.py.  `stamp` holds them for *)
(* the rows of site, survey, asset_type and asset, keyed by <<table, id>>;  *)
(* `now` is the value datetime.utcnow() returns next.  A handler builds or  *)
(* changes the row from data.dict(), the fields of the body that the        *)
(* schema declares, and hands it to crud.create or crud.update.             *)

\* The fields of the request bodies, and those among them with no default.
SiteCreate ==
    [declared |-> {"name", "coordinates", "parent_site_id"},
     required |-> {"name", "coordinates"}]

SiteUpdate == SiteCreate

SurveyCreate ==
    [declared |-> {"name", "start_date", "end_date", "is_latest"},
     required |-> {"name", "start_date", "end_date", "is_latest"}]

SurveyUpdate == SurveyCreate

AssetTypeCreate ==
    [declared |-> {"name", "description", "category"},
     required |-> {"name"}]

AssetTypeUpdate == AssetTypeCreate

AssetCreate == AssetUpdate

\* The fields of a response that the server fills in.
BaseSchemaModelInDb == {"id", "created", "modified"}

\* The bodies a client sends: the required fields, alone or together with
\* the fields of BaseSchemaModelInDb.
Bodies(schema) == {schema.required, schema.required \cup BaseSchemaModelInDb}

\* crud.create on a row built as Model(**data): created is assigned after
\* the row is built, modified only by the constructor.
crud_create(kind, data) ==
    /\ last'.res = "ok" => now <= MaxClock
    /\ now' = IF last'.res = "ok" THEN now + 1 ELSE now
    /\ stamp' = IF last'.res = "ok"
                THEN Put(stamp, <<kind, last'.new>>,
                         [created  |-> now,
                          modified |-> IF "modified" \in data THEN Forged ELSE Null])
                ELSE stamp
    /\ UNCHANGED <<req, call>>

\* crud.update on a row the handler changed by setattr of each field of
\* data: modified is assigned after the loop.
crud_update(kind, id, data) ==
    /\ last'.res = "ok" => now <= MaxClock
    /\ now' = IF last'.res = "ok" THEN now + 1 ELSE now
    /\ stamp' = IF last'.res = "ok"
                THEN [stamp EXCEPT ![<<kind, id>>] =
                         [created  |-> IF "created" \in data THEN Forged ELSE @.created,
                          modified |-> now]]
                ELSE stamp
    /\ UNCHANGED <<req, call>>

(* Specification of the timestamps: creates, updates and an upload on the  *)
(* sites, surveys, asset types and assets, from the empty database.        *)
NextStamps ==
    \/ \E body \in Bodies(SiteCreate) :
          create_site(Null) /\ Capped /\ crud_create("site", dict(SiteCreate, body))
    \/ \E id \in SiteIds, body \in Bodies(SiteUpdate) :
          update_site(id, {}, Null) /\ crud_update("site", id, dict(SiteUpdate, body))
    \/ \E id \in SiteIds, body \in Bodies(SurveyCreate) :
          create_survey(id, FALSE) /\ Capped /\ crud_create("survey", dict(SurveyCreate, body))
    \/ \E id \in SurveyIds, body \in Bodies(SurveyUpdate) :
          update_survey(id, FALSE) /\ crud_update("survey", id, dict(SurveyUpdate, body))
    \/ \E body \in Bodies(AssetTypeCreate) :
          create_asset_type(dict(AssetTypeCreate, body)) /\ Capped
             /\ crud_create("asset_type", dict(AssetTypeCreate, body))
    \/ \E id \in AssetTypeIds, body \in Bodies(AssetTypeUpdate) :
          update_asset_type(id, dict(AssetTypeUpdate, body))
             /\ crud_update("asset_type", id, dict(AssetTypeUpdate, body))
    \/ \E id \in AssetTypeIds, file \in Files :
          upload_asset_type_icon_file(id, file) /\ crud_update("asset_type", id, {})
    \/ \E id \in SurveyIds, t \in AssetTypeIds, body \in Bodies(AssetCreate) :
          create_asset(id, t) /\ Capped /\ crud_create("asset", dict(AssetCreate, body))
    \/ \E id \in AssetIds, t \in AssetTypeIds, body \in Bodies(AssetUpdate) \cup {{"name"}} :
          update_asset(id, body, t) /\ crud_update("asset", id, dict(AssetUpdate, body))

SpecStamps == Init /\ [][NextStamps]_vars

-----------------------------------------------------------------------------
(* Files.  The rows of overlay, pano and asset_type carry the name of the   *)
(* stored file and the name the client gave it.                            *)

OverlayCreate ==
    [declared |-> {"name", "extent", "level"},
     required |-> {"name", "extent"}]

OverlayUpdate == OverlayCreate

PanoCreate ==
    [declared |-> {"name", "description", "coordinates", "heading", "custom_marker", "level"},
     required |-> {"name", "coordinates"}]

PanooUpdate == PanoCreate

\* The filename columns of database/models.
Filenames ==
    {"stored_filename", "original_filename",
     "stored_icon_filename", "original_icon_filename"}

\* The bodies a client sends: the required fields, alone or together with
\* the name of a stored file, or with both filenames.
FileBodies(schema) ==
    {schema.required,
     schema.required \cup {"stored_filename", "stored_icon_filename"},
     schema.required \cup Filenames}

(* Specification of the files: creates, updates, uploads and downloads on  *)
(* the asset types, overlays and panos, from the database that holds one   *)
(* site and its one survey.                                                *)
NextFiles ==
    \/ \E body \in FileBodies(AssetTypeCreate) :
          create_asset_type(dict(AssetTypeCreate, body)) /\ Capped /\ Quiet
    \/ \E id \in AssetTypeIds, body \in FileBodies(AssetTypeUpdate) :
          update_asset_type(id, dict(AssetTypeUpdate, body)) /\ Quiet
    \/ \E id \in AssetTypeIds, file \in Files :
          upload_asset_type_icon_file(id, file) /\ Quiet
    \/ \E id \in AssetTypeIds : serve_asset_type_icon_file(id) /\ Quiet
    \/ \E id \in SurveyIds, body \in FileBodies(OverlayCreate) :
          create_overlay(id, dict(OverlayCreate, body)) /\ Capped /\ Quiet
    \/ \E id \in OverlayIds, body \in FileBodies(OverlayUpdate) :
          update_overlay(id, dict(OverlayUpdate, body)) /\ Quiet
    \/ \E id \in OverlayIds, file \in Files : upload_overlay_file(id, file) /\ Quiet
    \/ \E id \in OverlayIds : serve_overlay_file(id) /\ Quiet
    \/ \E id \in SurveyIds, body \in FileBodies(PanoCreate) :
          create_pano(id, dict(PanoCreate, body)) /\ Capped /\ Quiet
    \/ \E id \in PanoIds, body \in FileBodies(PanooUpdate) :
          update_pano(id, dict(PanooUpdate, body)) /\ Quiet
    \/ \E id \in PanoIds, file \in Files : upload_pano_file(id, file) /\ Quiet
    \/ \E id \in PanoIds : serve_pano_file(id) /\ Quiet

SpecFiles == InitSurveyed /\ [][NextFiles]_vars

(* Specification of the uploads with the timestamps: creates, updates and  *)
(* uploads on the asset types, overlays and panos, from the database that  *)
(* holds one site and its one survey.                                      *)
NextFileStamps ==
    \/ \E body \in Bodies(AssetTypeCreate) :
          create_asset_type(dict(AssetTypeCreate, body)) /\ Capped
             /\ crud_create("asset_type", dict(AssetTypeCreate, body))
    \/ \E id \in AssetTypeIds, body \in Bodies(AssetTypeUpdate) :
          update_asset_type(id, dict(AssetTypeUpdate, body))
             /\ crud_update("asset_type", id, dict(AssetTypeUpdate, body))
    \/ \E id \in AssetTypeIds, file \in Files :
          upload_asset_type_icon_file(id, file) /\ crud_update("asset_type", id, {})
    \/ \E id \in SurveyIds, body \in Bodies(OverlayCreate) :
          create_overlay(id, dict(OverlayCreate, body)) /\ Capped
             /\ crud_create("overlay", dict(OverlayCreate, body))
    \/ \E id \in OverlayIds, body \in Bodies(OverlayUpdate) :
          update_overlay(id, dict(OverlayUpdate, body))
             /\ crud_update("overlay", id, dict(OverlayUpdate, body))
    \/ \E id \in OverlayIds, file \in Files :
          upload_overlay_file(id, file) /\ crud_update("overlay", id, {})
    \/ \E id \in SurveyIds, body \in Bodies(PanoCreate) :
          create_pano(id, dict(PanoCreate, body)) /\ Capped
             /\ crud_create("pano", dict(PanoCreate, body))
    \/ \E id \in PanoIds, body \in Bodies(PanooUpdate) :
          update_pano(id, dict(PanooUpdate, body))
             /\ crud_update("pano", id, dict(PanooUpdate, body))
    \/ \E id \in PanoIds, file \in Files :
          upload_pano_file(id, file) /\ crud_update("pano", id, {})

SpecFileStamps == InitSurveyed /\ [][NextFileStamps]_vars

-----------------------------------------------------------------------------
(* Sub-resources and references.  The property names of an asset type, the  *)
(* properties of an asset and the hotspots of a pano are reached through    *)
(* the id of their parent in the path.                                      *)

AssetPropertyNameUpdate == [declared |-> {"name"}, required |-> {"name"}]

AssetPropertyUpdate == [declared |-> {"name", "value"}, required |-> {"name", "value"}]

HotspotUpdate_as_create ==
    [declared |-> {"yaw", "pitch", "asset_id", "destination_pano_id"},
     required |-> {"yaw", "pitch"}]

HotspotUpdate == [declared |-> {"yaw", "pitch"}, required |-> {"yaw", "pitch"}]

\* The foreign key columns of database/models.
References ==
    {"site_id", "survey_id", "asset_type_id", "asset_id", "pano_id", "destination_pano_id"}

\* The bodies a client sends: the required fields, alone or together with
\* the foreign keys.
ReferenceBodies(schema) == {schema.required, schema.required \cup References}

\* The ids of the parents in the database of InitParents, and the ids a
\* client puts in the path: those and the id of no row.
Parents == {1, 2}

PathIds == Parents \cup {3}

(* The database that holds one site, its one survey, two asset types, an   *)
(* asset of each type and two panos, and no sub-resource.                  *)
InitParents ==
    /\ site = Put(EmptyTable, 1, [parent_site_id |-> Null])
    /\ survey = Put(EmptyTable, 1, [site_id |-> 1, is_latest |-> FALSE])
    /\ asset_type = [id \in Parents |->
                        [stored_icon_filename |-> Null, original_icon_filename |-> Null]]
    /\ asset_property_name = EmptyTable
    /\ asset = [id \in Parents |-> [asset_type_id |-> id, survey_id |-> 1]]
    /\ asset_property = EmptyTable
    /\ overlay = EmptyTable
    /\ pano = [id \in Parents |->
                  [survey_id |-> 1, stored_filename |-> Null, original_filename |-> Null]]
    /\ photo = EmptyTable
    /\ hotspot = EmptyTable
    /\ seq = [site |-> 2, survey |-> 2, asset_type |-> 3, asset_property_name |-> 1,
              asset |-> 3, asset_property |-> 1, overlay |-> 1, pano |-> 3,
              photo |-> 1, hotspot |-> 1]
    /\ last = Created("create_pano", 1, <<>>, 2)
    /\ req = EmptyBag
    /\ now = 1
    /\ stamp = EmptyTable
    /\ call = <<>>

\* The rows inserted since InitParents, and the bound on them.
Children ==
    (seq.asset_property_name - 1) + (seq.asset_property - 1) + (seq.overlay - 1)
        + (seq.hotspot - 1)

Born == (last'.res = "ok" /\ last'.new # Null) => Children < MaxChildren

(* Specification of the sub-resources: creates, updates and deletes of the *)
(* property names, properties and hotspots through every parent.           *)
NextScoped ==
    \/ \E id \in PathIds : create_property_name(id) /\ Born /\ Quiet
    \/ \E id \in PathIds, property_name_id \in PropertyNameIds :
          update_property_name(id, property_name_id,
                               dict(AssetPropertyNameUpdate, AssetPropertyNameUpdate.required))
             /\ Quiet
    \/ \E id \in PathIds, property_name_id \in PropertyNameIds :
          delete_property_name(id, property_name_id) /\ Quiet
    \/ \E id \in PathIds : create_property(id) /\ Born /\ Quiet
    \/ \E id \in PathIds, property_id \in PropertyIds :
          update_property(id, property_id,
                          dict(AssetPropertyUpdate, AssetPropertyUpdate.required))
             /\ Quiet
    \/ \E id \in PathIds, property_id \in PropertyIds :
          delete_asset_property(id, property_id) /\ Quiet
    \/ \E id \in PathIds, asset_id \in {Null, 1}, destination_pano_id \in {Null, 2} :
          create_hotspot(id, asset_id, destination_pano_id) /\ Born /\ Quiet
    \/ \E id \in PathIds, hotspot_id \in HotspotIds :
          update_hotspot(id, hotspot_id, dict(HotspotUpdate, HotspotUpdate.required))
             /\ Quiet
    \/ \E id \in PathIds, hotspot_id \in HotspotIds : delete_hotspot(id, hotspot_id) /\ Quiet

SpecScoped == InitParents /\ [][NextScoped]_vars

(* Specification of the updates: the creates of the rows that reference a  *)
(* parent and every update, with bodies that carry foreign keys.           *)
NextUpdates ==
    \/ \E id \in SurveyIds : update_survey(id, TRUE) /\ Quiet
    \/ \E id \in SurveyIds :
          create_overlay(id, dict(OverlayCreate, OverlayCreate.required)) /\ Born /\ Quiet
    \/ \E id \in OverlayIds, body \in ReferenceBodies(OverlayUpdate) :
          update_overlay(id, dict(OverlayUpdate, body)) /\ Quiet
    \/ \E id \in Parents, body \in ReferenceBodies(AssetUpdate) :
          update_asset(id, body, 1) /\ Quiet
    \/ \E id \in Parents, body \in ReferenceBodies(PanooUpdate) :
          update_pano(id, dict(PanooUpdate, body)) /\ Quiet
    \/ \E id \in Parents : create_property_name(id) /\ Born /\ Quiet
    \/ \E id \in Parents, property_name_id \in PropertyNameIds,
          body \in ReferenceBodies(AssetPropertyNameUpdate) :
          update_property_name(id, property_name_id, dict(AssetPropertyNameUpdate, body))
             /\ Quiet
    \/ \E id \in Parents : create_property(id) /\ Born /\ Quiet
    \/ \E id \in Parents, property_id \in PropertyIds,
          body \in ReferenceBodies(AssetPropertyUpdate) :
          update_property(id, property_id, dict(AssetPropertyUpdate, body)) /\ Quiet
    \/ \E id \in Parents, asset_id \in {Null, 1}, destination_pano_id \in {Null, 2} :
          create_hotspot(id, asset_id, destination_pano_id) /\ Born /\ Quiet
    \/ \E id \in Parents, hotspot_id \in HotspotIds, body \in ReferenceBodies(HotspotUpdate) :
          update_hotspot(id, hotspot_id, dict(HotspotUpdate, body)) /\ Quiet

SpecUpdates == InitParents /\ [][NextUpdates]_vars

-----------------------------------------------------------------------------
(* List requests.  The handlers of GET on a collection build one SELECT    *)
(* from the query parameters: WHERE name ILIKE %search%, ORDER BY, OFFSET   *)
(* and LIMIT.  The result is a function of the rows and the parameters.    *)
(* The rows are a sequence of names, row i having id i; a name is the      *)
(* string of that many letters "a", so that names are ordered as their     *)
(* lengths and a name contains a search term when it is no shorter.  An    *)
(* optional parameter is <<>> when the request leaves it out and <<v>>     *)
(* when it has the value v.                                                 *)

\* The tables a list request reads: up to MaxItems rows whose names, with
\* repetitions, are the k shortest names for some k.
Tables ==
    UNION {{rows \in [1..n -> 1..n] :
               \E k \in 0..n : {rows[i] : i \in 1..n} = 1..k} : n \in 0..MaxItems}

\* The values of the query parameters search, skip and limit (Query(ge=0)
\* for skip, Query(ge=1) for limit).
Searches == {<<>>, <<0>>, <<2>>}
Skips == {<<>>, <<0>>, <<2>>}
Limits == {<<>>, <<2>>}

\* Python truth of an optional parameter: None, 0 and "" are false.
Truthy(opt) == opt # <<>> /\ opt[1] # 0

\* models.Site.name.icontains(search, autoescape=True)
icontains(name, search) == search <= name

\* The value of the column sort_by of row i; created grows with id.
SortKey(rows, sort_by, i) == IF sort_by = "name" THEN rows[i] ELSE i

\* Row i comes strictly before row j under ORDER BY sort_by [DESC].
Before(rows, sort_by, sort_desc, i, j) ==
    IF sort_desc THEN SortKey(rows, sort_by, i) > SortKey(rows, sort_by, j)
    ELSE SortKey(rows, sort_by, i) < SortKey(rows, sort_by, j)

\* ORDER BY on the rows with ids in S: every arrangement in which no row
\* comes after a row it is strictly before; rows with equal keys come in
\* any order.
RECURSIVE order_by(_, _, _, _)
order_by(rows, S, sort_by, sort_desc) ==
    IF S = {} THEN {<<>>}
    ELSE LET firsts == {i \in S : \A j \in S : ~Before(rows, sort_by, sort_desc, j, i)}
         IN UNION {{<<i>> \o t : t \in order_by(rows, S \ {i}, sort_by, sort_desc)} :
                      i \in firsts}

\* OFFSET n that skips nothing.
offset_none(s, n) == s

\* OFFSET n
offset(s, n) == SubSeq(s, n + 1, Len(s))

\* LIMIT n
limit(s, n) == SubSeq(s, 1, IF n < Len(s) THEN n ELSE Len(s))

\* GET /sites/ on the table call.rows: the ids of the rows of the response,
\* in order.
get_sites(search, sort_by, sort_direction, skip, lim) ==
    LET rows      == call.rows
        sort_desc == sort_direction = "descending"
        where     == {i \in DOMAIN rows : Truthy(search) => icontains(rows[i], search[1])}
    IN
    /\ \E sorted \in order_by(rows, where, sort_by, sort_desc) :
          LET skipped == IF Truthy(skip) THEN offset(sorted, skip[1]) ELSE sorted
              cut     == IF Truthy(lim) THEN limit(skipped, lim[1]) ELSE skipped
          IN call' = [fn |-> "get_sites", rows |-> rows, search |-> search,
                      sort_by |-> sort_by, sort_direction |-> sort_direction,
                      skip |-> skip, limit |-> lim, out |-> cut]
    /\ UNCHANGED <<tables, seq, last, req, now, stamp>>

\* The database before a list request: the rows to list are in call.rows.
InitList ==
    /\ site = EmptyTable
    /\ survey = EmptyTable
    /\ asset_type = EmptyTable
    /\ asset_property_name = EmptyTable
    /\ asset = EmptyTable
    /\ asset_property = EmptyTable
    /\ overlay = EmptyTable
    /\ pano = EmptyTable
    /\ photo = EmptyTable
    /\ hotspot = EmptyTable
    /\ seq = [site |-> 1, survey |-> 1, asset_type |-> 1, asset_property_name |-> 1,
              asset |-> 1, asset_property |-> 1, overlay |-> 1, pano |-> 1,
              photo |-> 1, hotspot |-> 1]
    /\ last = Resp("none", Null, <<>>, "ok")
    /\ req = EmptyBag
    /\ now = 1
    /\ stamp = EmptyTable
    /\ call \in {[fn |-> "none", rows |-> rows] : rows \in Tables}

(* Specification of the list of sites: one request on any table.           *)
NextList ==
    /\ call.fn = "none"
    /\ \E search \in Searches, sort_by \in {"id", "name"},
          sort_direction \in {"ascending", "descending"}, skip \in Skips, lim \in Limits :
           get_sites(search, sort_by, sort_direction, skip, lim)

SpecList == InitList /\ [][NextList]_vars

-----------------------------------------------------------------------------
(* schemas/coordinates.py and schemas/extent.py.  A coordinate is a number  *)
(* of tenths of a degree.  A shape is what shapely builds: a Point with x   *)
(* and y, or a Polygon or LineString with the sequence of its vertices (a   *)
(* polygon's ring ends at its first vertex).  WKT is text: the keyword of   *)
(* the geometry and, for each vertex, the two numbers as the characters     *)
(* the GEOS writer prints, the shortest decimal that reads back as the      *)
(* same number.                                                             *)

Digit == <<"0", "1", "2", "3", "4", "5", "6", "7", "8", "9">>

\* The decimal digits of a natural number.
RECURSIVE Decimal(_)
Decimal(n) ==
    IF n < 10 THEN <<Digit[n + 1]>>
    ELSE Append(Decimal(n \div 10), Digit[(n % 10) + 1])

\* A number of tenths as WKT prints it: 15 as 1.5, 20 as 2, -5 as -0.5.
write_number(t) ==
    LET a == IF t < 0 THEN 0 - t ELSE t IN
    (IF t < 0 THEN <<"-">> ELSE <<>>)
        \o Decimal(a \div 10)
        \o (IF a % 10 = 0 THEN <<>> ELSE <<".", Digit[(a % 10) + 1]>>)

DigitValue(c) == CHOOSE d \in 0..9 : Digit[d + 1] = c

\* The natural number a sequence of digits denotes.
RECURSIVE Natural(_)
Natural(s) ==
    IF s = <<>> THEN 0
    ELSE 10 * Natural(SubSeq(s, 1, Len(s) - 1)) + DigitValue(s[Len(s)])

\* The number of tenths that the text of a number denotes.
read_number(s) ==
    LET negative == s[1] = "-"
        body     == IF negative THEN Tail(s) ELSE s
        dots     == {i \in DOMAIN body : body[i] = "."}
        dot      == IF dots = {} THEN Len(body) + 1 ELSE CHOOSE i \in dots : TRUE
        whole    == Natural(SubSeq(body, 1, dot - 1))
        tenths   == IF dot < Len(body) THEN DigitValue(body[dot + 1]) ELSE 0
        a        == 10 * whole + tenths
    IN IF negative THEN 0 - a ELSE a

\* shapely.geometry.Point(x, y)
Point(x, y) == [type |-> "Point", x |-> x, y |-> y]

\* shapely.geometry.box(minx, miny, maxx, maxy), counter-clockwise from the
\* lower right corner.
box(minx, miny, maxx, maxy) ==
    [type |-> "Polygon",
     ring |-> << <<maxx, miny>>, <<maxx, maxy>>, <<minx, maxy>>, <<minx, miny>>,
                 <<maxx, miny>> >>]

\* The vertices of a shape.
Vertices(shape) == IF shape.type = "Point" THEN << <<shape.x, shape.y>> >> ELSE shape.ring

\* shape.wkt
wkt(shape) ==
    [keyword |-> CASE shape.type = "Point" -> "POINT"
                   [] shape.type = "Polygon" -> "POLYGON"
                   [] OTHER -> "LINESTRING",
     numbers |-> [i \in DOMAIN Vertices(shape) |->
                     <<write_number(Vertices(shape)[i][1]),
                       write_number(Vertices(shape)[i][2])>>]]

\* shapely.from_wkt(text)
from_wkt(text) ==
    LET vertices == [i \in DOMAIN text.numbers |->
                        <<read_number(text.numbers[i][1]), read_number(text.numbers[i][2])>>]
    IN CASE text.keyword = "POINT" -> Point(vertices[1][1], vertices[1][2])
         [] text.keyword = "POLYGON" -> [type |-> "Polygon", ring |-> vertices]
         [] OTHER -> [type |-> "LineString", ring |-> vertices]

\* The result of a call: a value, or the exception raised with its message.
Returned(value) == [ok |-> TRUE, value |-> value]
Raised(exception, message) == [ok |-> FALSE, exception |-> exception, message |-> message]

\* Coordinates(longitude=, latitude=): pydantic checks ge and le of the
\* two fields.
Coordinates(longitude, latitude) ==
    IF longitude >= 0 - 1800 /\ longitude <= 1800 /\ latitude >= 0 - 900 /\ latitude <= 900
    THEN Returned([longitude |-> longitude, latitude |-> latitude])
    ELSE Raised("ValidationError", "range")

\* Coordinates.to_wkt
Coordinates_to_wkt(self) == wkt(Point(self.longitude, self.latitude))

\* A Coordinates.from_wkt that reads any geometry as a point.
Coordinates_from_wkt_any(text) ==
    LET shape == from_wkt(text) IN
    Coordinates(Vertices(shape)[1][1], Vertices(shape)[1][2])

\* Coordinates.from_wkt and Coordinates.from_shapely_point
Coordinates_from_wkt(text) ==
    LET shape == from_wkt(text) IN
    IF shape.type = "Point" THEN Coordinates(shape.x, shape.y)
    ELSE Raised("ValueError", "wkt")

\* Extent(longitude_min=, latitude_min=, longitude_max=, latitude_max=):
\* pydantic checks ge and le of each field and nothing between the fields.
Extent(longitude_min, latitude_min, longitude_max, latitude_max) ==
    IF /\ \A v \in {longitude_min, longitude_max} : v >= 0 - 1800 /\ v <= 1800
       /\ \A v \in {latitude_min, latitude_max} : v >= 0 - 900 /\ v <= 900
    THEN Returned([longitude_min |-> longitude_min, latitude_min |-> latitude_min,
                   longitude_max |-> longitude_max, latitude_max |-> latitude_max])
    ELSE Raised("ValidationError", "range")

\* Extent.to_wkt
Extent_to_wkt(self) ==
    wkt(box(self.longitude_min, self.latitude_min, self.longitude_max, self.latitude_max))

Least(S) == CHOOSE v \in S : \A w \in S : v <= w
Greatest(S) == CHOOSE v \in S : \A w \in S : v >= w

\* polygon.bounds: (minx, miny, maxx, maxy)
bounds(shape) ==
    LET xs == {shape.ring[i][1] : i \in DOMAIN shape.ring}
        ys == {shape.ring[i][2] : i \in DOMAIN shape.ring}
    IN <<Least(xs), Least(ys), Greatest(xs), Greatest(ys)>>

\* Twice the area a ring encloses, positive when counter-clockwise.
RECURSIVE Area2(_)
Area2(ring) ==
    IF Len(ring) < 2 THEN 0
    ELSE ring[1][1] * ring[2][2] - ring[2][1] * ring[1][2] + Area2(Tail(ring))

\* rectangle.equals(polygon), GEOS topological equality, for the rectangle
\* of the bounds of a polygon whose ring does not cross itself: the polygon
\* lies within the rectangle, so the two are the same set of points when
\* they enclose the same area.  A ring with fewer than four points once
\* repeated points are removed is left out of the topology graph, so a
\* polygon that encloses no area has no interior and equals no polygon.
equals(rectangle, polygon) ==
    LET a == Area2(rectangle.ring)
        b == Area2(polygon.ring)
    IN a # 0 /\ (a = b \/ a = 0 - b)

\* An Extent.from_shapely_polygon that takes the bounds of any polygon.
Extent_from_shapely_polygon_any(polygon) ==
    LET b == bounds(polygon) IN Extent(b[1], b[2], b[3], b[4])

\* Extent.from_shapely_polygon
Extent_from_shapely_polygon(polygon) ==
    LET b == bounds(polygon) IN
    IF equals(box(b[1], b[2], b[3], b[4]), polygon)
    THEN Extent(b[1], b[2], b[3], b[4])
    ELSE Raised("ValueError", "The shape is not a bounding box")

\* Extent.from_wkt
Extent_from_wkt(text) ==
    LET shape == from_wkt(text) IN
    IF shape.type = "Polygon" THEN Extent_from_shapely_polygon(shape)
    ELSE Raised("ValueError", "wkt")

\* The coordinates of the points that are converted: the small ones and
\* the ends of the ranges.
Longitudes == ((0 - MaxPoint)..MaxPoint) \cup {0 - 1800, 0 - 1795, 1005, 1800}
Latitudes == ((0 - MaxPoint)..MaxPoint) \cup {0 - 900, 0 - 895, 105, 900}

\* The boxes that are converted: min <= max on both axes.
BoxCoordinates == ((0 - MaxBox)..MaxBox) \cup {0 - 895, 900}
Boxes ==
    {[longitude_min |-> x1, latitude_min |-> y1, longitude_max |-> x2, latitude_max |-> y2] :
        x1 \in BoxCoordinates, y1 \in BoxCoordinates,
        x2 \in BoxCoordinates, y2 \in BoxCoordinates}

\* Geometries that the database may hold beside those to_wkt writes: a
\* rectangle drawn clockwise from its upper left corner, a rectangle with a
\* vertex in the middle of an edge, a triangle, a diamond, a parallelogram,
\* an L, a polygon that is a single point, a line and a point.
Shapes ==
    {[type |-> "Polygon", ring |-> << <<0, 20>>, <<30, 20>>, <<30, 0>>, <<0, 0>>, <<0, 20>> >>],
     [type |-> "Polygon",
      ring |-> << <<0, 0>>, <<15, 0>>, <<30, 0>>, <<30, 20>>, <<0, 20>>, <<0, 0>> >>],
     [type |-> "Polygon", ring |-> << <<0, 0>>, <<30, 0>>, <<0, 20>>, <<0, 0>> >>],
     [type |-> "Polygon", ring |-> << <<10, 0>>, <<20, 10>>, <<10, 20>>, <<0, 10>>, <<10, 0>> >>],
     [type |-> "Polygon", ring |-> << <<0, 0>>, <<20, 0>>, <<30, 10>>, <<10, 10>>, <<0, 0>> >>],
     [type |-> "Polygon",
      ring |-> << <<0, 0>>, <<20, 0>>, <<20, 10>>, <<10, 10>>, <<10, 20>>, <<0, 20>>, <<0, 0>> >>],
     [type |-> "Polygon", ring |-> << <<5, 5>>, <<5, 5>>, <<5, 5>>, <<5, 5>>, <<5, 5>> >>],
     [type |-> "LineString", ring |-> << <<0, 0>>, <<30, 20>> >>],
     Point(15, 0 - 5)}

\* c.to_wkt() for a Coordinates c.
to_wkt_point(c) ==
    /\ call = <<>>
    /\ call' = [fn |-> "Coordinates.to_wkt", self |-> c, out |-> Coordinates_to_wkt(c)]
    /\ UNCHANGED <<tables, seq, last, req, now, stamp>>

\* e.to_wkt() for an Extent e.
to_wkt_extent(e) ==
    /\ call = <<>>
    /\ call' = [fn |-> "Extent.to_wkt", self |-> e, out |-> Extent_to_wkt(e)]
    /\ UNCHANGED <<tables, seq, last, req, now, stamp>>

\* The texts from_wkt is called on: the text the latest to_wkt wrote, or
\* the text of another geometry.
Texts ==
    IF call = <<>> THEN {wkt(shape) : shape \in Shapes}
    ELSE IF call.fn \in {"Coordinates.to_wkt", "Extent.to_wkt"} THEN {call.out}
    ELSE {}

\* Coordinates.from_wkt(text)
from_wkt_point(text) ==
    /\ call' = [fn |-> "Coordinates.from_wkt", arg |-> text, out |-> Coordinates_from_wkt(text)]
    /\ UNCHANGED <<tables, seq, last, req, now, stamp>>

\* Extent.from_wkt(text)
from_wkt_extent(text) ==
    /\ call' = [fn |-> "Extent.from_wkt", arg |-> text, out |-> Extent_from_wkt(text)]
    /\ UNCHANGED <<tables, seq, last, req, now, stamp>>

(* Specification of the geometry converters: a conversion to WKT followed  *)
(* by a conversion back, and conversions of other geometries.              *)
NextGeometry ==
    \/ \E longitude \in Longitudes, latitude \in Latitudes :
          to_wkt_point([longitude |-> longitude, latitude |-> latitude])
    \/ \E e \in Boxes :
          e.longitude_min <= e.longitude_max /\ e.latitude_min <= e.latitude_max
              /\ to_wkt_extent(e)
    \/ \E text \in Texts : from_wkt_point(text)
    \/ \E text \in Texts : from_wkt_extent(text)

SpecGeometry == Init /\ [][NextGeometry]_vars

-----------------------------------------------------------------------------
(* utils.store_uploaded_file.  The upload is the sequence of the lengths of *)
(* the chunks that file.read(UPLOAD_CHUNK_SIZE) returns until it returns    *)
(* b""; its bytes are numbered from 1.  `call` holds the coroutine: its     *)
(* arguments, its position (cut at each await), the chunks read so far,     *)
(* num_bytes_read, and the destination file: whether it exists and the      *)
(* bytes written to it.                                                     *)

\* The uploads that are stored and the values of max_size_bytes (<<>> for
\* None).
Uploads == UNION {[1..n -> 1..MaxChunkBytes] : n \in 0..MaxChunks}
SizeLimits == {<<>>} \cup {<<m>> : m \in 0..MaxLimit}

\* The number of bytes of the first n chunks.
RECURSIVE Bytes(_, _)
Bytes(chunks, n) == IF n = 0 THEN 0 ELSE Bytes(chunks, n - 1) + chunks[n]

\* Chunk n of the upload: the bytes by their numbers.
Chunk(chunks, n) == [i \in 1..chunks[n] |-> Bytes(chunks, n - 1) + i]

\* await store_uploaded_file(file, directory, max_size_bytes), up to
\* aiofiles.open.
store_uploaded_file(chunks, max_size_bytes) ==
    /\ call = <<>>
    /\ call' = [fn |-> "store_uploaded_file", chunks |-> chunks,
                max_size_bytes |-> max_size_bytes, pc |-> "open", read |-> 0,
                num_bytes_read |-> 0, exists |-> FALSE, dest |-> <<>>,
                out |-> Raised("none", "running")]
    /\ UNCHANGED <<tables, seq, last, req, now, stamp>>

\* A coroutine of store_uploaded_file is at position pc.
At(pc) == call # <<>> /\ call.fn = "store_uploaded_file" /\ call.pc = pc

\* aiofiles.open(file_path, 'wb'): the file is created empty.
open_dest ==
    /\ At("open")
    /\ call' = [call EXCEPT !.exists = TRUE, !.dest = <<>>, !.pc = "read"]
    /\ UNCHANGED <<tables, seq, last, req, now, stamp>>

\* chunk := await file.read(UPLOAD_CHUNK_SIZE), the count and the test of
\* the limit: b"" ends the loop, a chunk that takes the count over a limit
\* that is not None and not 0 raises 413, another chunk is to be written.
read_chunk ==
    /\ At("read")
    /\ call' =
          IF call.read = Len(call.chunks)
          THEN [call EXCEPT !.pc = "return"]
          ELSE LET n == call.num_bytes_read + call.chunks[call.read + 1] IN
               IF Truthy(call.max_size_bytes) /\ n > call.max_size_bytes[1]
               THEN [call EXCEPT !.read = @ + 1, !.num_bytes_read = n, !.pc = "except"]
               ELSE [call EXCEPT !.read = @ + 1, !.num_bytes_read = n, !.pc = "write"]
    /\ UNCHANGED <<tables, seq, last, req, now, stamp>>

\* await dest.write(chunk)
write_chunk ==
    /\ At("write")
    /\ call' = [call EXCEPT !.dest = @ \o Chunk(call.chunks, call.read), !.pc = "read"]
    /\ UNCHANGED <<tables, seq, last, req, now, stamp>>

\* An unlink that leaves the file in place.
aioos_unlink_skipped(c) == c

\* await aioos.unlink(file_path)
aioos_unlink(c) == [c EXCEPT !.exists = FALSE, !.dest = <<>>]

\* except HTTPException: the file is closed, removed and the exception
\* raised again.
handle_exception ==
    /\ At("except")
    /\ call' = [aioos_unlink(call) EXCEPT
                   !.pc = "done", !.out = Raised("HTTPException", "TooLarge")]
    /\ UNCHANGED <<tables, seq, last, req, now, stamp>>

\* return file_path
return_path ==
    /\ At("return")
    /\ call' = [call EXCEPT !.pc = "done", !.out = Returned(StoredFile)]
    /\ UNCHANGED <<tables, seq, last, req, now, stamp>>

(* Specification of one call of store_uploaded_file.                        *)
NextUpload ==
    \/ \E chunks \in Uploads, max_size_bytes \in SizeLimits :
          store_uploaded_file(chunks, max_size_bytes)
    \/ open_dest
    \/ read_chunk
    \/ write_chunk
    \/ handle_exception
    \/ return_path

SpecUpload == Init /\ [][NextUpload]_vars

\* The event loop resumes a coroutine whose await has completed.
SpecUploadFair == SpecUpload /\ WF_vars(NextUpload)

-----------------------------------------------------------------------------
(* Properties of the site hierarchy, checked under Spec *)

\* A step that answers request op with path id `id`.
Answers(op, id) == last'.op = op /\ last'.id = id

\* C2: after any sequence of create_site, update_site and delete_site, no
\* site with a non-null parent_site_id is itself the parent of a site, and
\* no site is its own parent.
C2_TwoLevels ==
    \A s \in DOMAIN site :
        site[s].parent_site_id # Null =>
            /\ site[s].parent_site_id # s
            /\ \A c \in DOMAIN site : site[c].parent_site_id # s

\* C3: create_site with parent_site_id = P, P an existing site, fails with
\* HierarchyTooDeep and persists nothing when P has a non-null
\* parent_site_id, and otherwise succeeds and persists exactly one new site,
\* whose parent_site_id is P.
C3_CreateSiteDepth ==
    [][\A P \in SiteIds :
          (last'.op = "create_site" /\ last'.data.parent_site_id = P /\ P \in DOMAIN site) =>
              IF site[P].parent_site_id # Null
              THEN last'.res = "HierarchyTooDeep" /\ site' = site
              ELSE /\ last'.res = "ok"
                   /\ last'.new \notin DOMAIN site
                   /\ DOMAIN site' = DOMAIN site \cup {last'.new}
                   /\ site'[last'.new].parent_site_id = P
                   /\ \A k \in DOMAIN site : site'[k] = site[k]]_vars

\* C3 witness: a create under a sub-site was rejected as too deep.
C3_Witness ==
    /\ last.op = "create_site"
    /\ last.res = "HierarchyTooDeep"
    /\ last.data.parent_site_id \in DOMAIN site
    /\ site[last.data.parent_site_id].parent_site_id # Null

\* C4: each site has at most one survey with is_latest = true.
C4_OneLatestPerSite ==
    \A a, b \in DOMAIN survey :
        (survey[a].site_id = survey[b].site_id /\ survey[a].is_latest /\ survey[b].is_latest)
            => a = b

\* The surveys that block the deletion of site id: those of the site and
\* those of its sub-sites.
SurveysUnder(id) ==
    {s \in DOMAIN survey :
        \/ survey[s].site_id = id
        \/ /\ survey[s].site_id \in DOMAIN site
           /\ site[survey[s].site_id].parent_site_id = id}

\* C6: delete_site of an existing site fails with HasDependents and leaves
\* the site in place when a survey belongs to the site or to one of its
\* sub-sites, and otherwise succeeds and removes the site; in every state
\* every survey's site_id refers to an existing site.
C6_DeleteSiteGuard ==
    /\ [][\A id \in SiteIds :
             (Answers("delete_site", id) /\ id \in DOMAIN site) =>
                 IF SurveysUnder(id) # {}
                 THEN last'.res = "HasDependents" /\ site' = site /\ survey' = survey
                 ELSE last'.res = "ok" /\ id \notin DOMAIN site' /\ survey' = survey]_vars
    /\ [](\A s \in DOMAIN survey : survey[s].site_id \in DOMAIN site)

\* C6 witness: a delete was blocked by the survey of a sub-site.
C6_Witness ==
    /\ last.op = "delete_site"
    /\ last.res = "HasDependents"
    /\ last.id \in DOMAIN site
    /\ \A s \in DOMAIN survey : survey[s].site_id # last.id
    /\ \E s \in DOMAIN survey : site[survey[s].site_id].parent_site_id = last.id

\* C8: deleting a site that has a sub-site is blocked like one that has
\* surveys, and no site's parent_site_id refers to a deleted site.
C8_SubSitesBlockDelete ==
    /\ [][\A id \in SiteIds :
             (/\ Answers("delete_site", id)
              /\ id \in DOMAIN site
              /\ \E c \in DOMAIN site \ {id} : site[c].parent_site_id = id) =>
                 last'.res = "HasDependents" /\ site' = site]_vars
    /\ [](\A c \in DOMAIN site : FkOk(site, site[c].parent_site_id))

-----------------------------------------------------------------------------
(* Properties of a survey's data, checked under SpecData *)

\* C1: a hotspot create is accepted only when exactly one of asset_id and
\* destination_pano_id is non-null (otherwise it fails with
\* InvalidHotspotReference), so every persisted hotspot has exactly one of
\* the two references set.
C1_HotspotExactlyOne ==
    /\ (/\ last.op = "create_hotspot"
        /\ last.id \in DOMAIN pano
        /\ (last.data.asset_id = Null) = (last.data.destination_pano_id = Null))
           => last.res = "InvalidHotspotReference"
    /\ \A h \in DOMAIN hotspot :
           (hotspot[h].asset_id = Null) # (hotspot[h].destination_pano_id = Null)

\* The rows that a survey owns, directly or through its assets and panos.
OwnedOverlays(id) == Refs(overlay, "survey_id", id)
OwnedAssets(id) == Refs(asset, "survey_id", id)
OwnedPanos(id) == Refs(pano, "survey_id", id)
OwnedPhotos(id) == Refs(photo, "survey_id", id)
OwnedHotspots(id) == {h \in DOMAIN hotspot : hotspot[h].pano_id \in OwnedPanos(id)}
OwnedProperties(id) ==
    {q \in DOMAIN asset_property : asset_property[q].asset_id \in OwnedAssets(id)}

\* C5: deleting an existing survey removes the survey row together with
\* every overlay, asset, pano and photo of the survey, the hotspots of those
\* panos and the properties of those assets; no row refers to a deleted
\* survey.
C5_DeleteSurveyCascades ==
    /\ [][\A id \in SurveyIds :
             (Answers("delete_survey", id) /\ id \in DOMAIN survey) =>
                 /\ last'.res = "ok"
                 /\ id \notin DOMAIN survey'
                 /\ DOMAIN overlay' = DOMAIN overlay \ OwnedOverlays(id)
                 /\ DOMAIN asset' = DOMAIN asset \ OwnedAssets(id)
                 /\ DOMAIN pano' = DOMAIN pano \ OwnedPanos(id)
                 /\ DOMAIN photo' = DOMAIN photo \ OwnedPhotos(id)
                 /\ DOMAIN hotspot' = DOMAIN hotspot \ OwnedHotspots(id)
                 /\ DOMAIN asset_property' = DOMAIN asset_property \ OwnedProperties(id)]_vars
    /\ [](/\ \A k \in DOMAIN overlay : overlay[k].survey_id \in DOMAIN survey
          /\ \A k \in DOMAIN asset : asset[k].survey_id \in DOMAIN survey
          /\ \A k \in DOMAIN pano : pano[k].survey_id \in DOMAIN survey
          /\ \A k \in DOMAIN photo : photo[k].survey_id \in DOMAIN survey)

\* C7: delete_asset_type of an existing asset type fails with HasDependents
\* and changes nothing when an asset has that type, and otherwise succeeds;
\* no asset refers to a deleted asset type.
C7_DeleteAssetTypeGuard ==
    /\ [][\A id \in AssetTypeIds :
             (Answers("delete_asset_type", id) /\ id \in DOMAIN asset_type) =>
                 IF Refs(asset, "asset_type_id", id) # {}
                 THEN last'.res = "HasDependents" /\ asset_type' = asset_type /\ asset' = asset
                 ELSE last'.res = "ok" /\ id \notin DOMAIN asset_type']_vars
    /\ [](\A a \in DOMAIN asset : asset[a].asset_type_id \in DOMAIN asset_type)

\* C9: deleting an existing asset, overlay or pano by id succeeds and
\* removes the row, and every get, update or delete of an id that has no row
\* answers NotFound.
C9_DeleteIsTerminal ==
    /\ [][/\ \A id \in AssetIds :
                (Answers("delete_asset", id) /\ id \in DOMAIN asset) =>
                    last'.res = "ok" /\ id \notin DOMAIN asset'
          /\ \A id \in OverlayIds :
                (Answers("delete_overlay", id) /\ id \in DOMAIN overlay) =>
                    last'.res = "ok" /\ id \notin DOMAIN overlay'
          /\ \A id \in PanoIds :
                (Answers("delete_pano", id) /\ id \in DOMAIN pano) =>
                    last'.res = "ok" /\ id \notin DOMAIN pano'
          /\ (last'.op \in {"get_asset", "update_asset", "delete_asset"}
                /\ last'.id \notin DOMAIN asset) => last'.res = "NotFound"
          /\ (last'.op \in {"get_overlay", "update_overlay", "delete_overlay"}
                /\ last'.id \notin DOMAIN overlay) => last'.res = "NotFound"
          /\ (last'.op \in {"get_pano", "update_pano", "delete_pano"}
                /\ last'.id \notin DOMAIN pano) => last'.res = "NotFound"]_vars

\* C10: a delete of an id that has no row fails with NotFound and changes
\* no table, for every kind of entity, delete_survey included.
C10_DeleteAbsentIsNotFound ==
    [][LET absent ==
            \/ last'.op = "delete_survey" /\ last'.id \notin DOMAIN survey
            \/ last'.op = "delete_site" /\ last'.id \notin DOMAIN site
            \/ last'.op = "delete_asset_type" /\ last'.id \notin DOMAIN asset_type
            \/ last'.op = "delete_asset" /\ last'.id \notin DOMAIN asset
            \/ last'.op = "delete_overlay" /\ last'.id \notin DOMAIN overlay
            \/ last'.op = "delete_pano" /\ last'.id \notin DOMAIN pano
            \/ last'.op = "delete_photo" /\ last'.id \notin DOMAIN photo
            \/ last'.op = "delete_hotspot" /\ last'.data.hotspot_id \notin DOMAIN hotspot
       IN  absent => last'.res = "NotFound" /\ UNCHANGED tables]_vars

-----------------------------------------------------------------------------
(* Properties of the create requests, checked under SpecCreate *)

\* The table that holds the parent named in the path of a create request.
ParentTable(op) ==
    CASE op = "create_survey" -> site
      [] op \in {"create_overlay", "create_asset", "create_pano", "create_photo"} -> survey
      [] op = "create_hotspot" -> pano
      [] op = "create_property" -> asset
      [] op = "create_property_name" -> asset_type

DependentCreates ==
    {"create_survey", "create_overlay", "create_asset", "create_pano", "create_photo",
     "create_hotspot", "create_property", "create_property_name"}

\* C11: a create of a dependent row (survey, overlay, asset, pano, photo,
\* hotspot, property, property name) under a parent id that has no row
\* answers NotFound, inserts no row and consumes no id.
C11_CreateUnderMissingParent ==
    [][(last'.op \in DependentCreates /\ last'.id \notin DOMAIN ParentTable(last'.op))
          => last'.res = "NotFound" /\ UNCHANGED <<tables, seq>>]_vars

\* C11 witness: a hotspot create named a pano that has no row, in a
\* database that holds other panos, and was answered NotFound.
C11_Witness ==
    /\ last.op = "create_hotspot"
    /\ last.id \notin DOMAIN pano
    /\ pano # EmptyTable
    /\ last.res = "NotFound"

-----------------------------------------------------------------------------
(* Further properties of a survey's data, checked under SpecData *)

\* C12: a hotspot create on an existing pano whose destination_pano_id is
\* set and names no existing pano is rejected by validation with
\* InvalidHotspotReference, and no hotspot's destination is a missing pano.
C12_DestinationMustExist ==
    /\ (/\ last.op = "create_hotspot"
        /\ last.id \in DOMAIN pano
        /\ last.data.destination_pano_id # Null
        /\ last.data.destination_pano_id \notin DOMAIN pano)
           => last.res = "InvalidHotspotReference"
    /\ \A h \in DOMAIN hotspot : FkOk(pano, hotspot[h].destination_pano_id)

\* The hotspots placed in pano id and the hotspots that lead to it.
HotspotsOf(id) ==
    {h \in DOMAIN hotspot : hotspot[h].pano_id = id \/ hotspot[h].destination_pano_id = id}

\* C13: deleting an existing pano or photo succeeds and removes the row
\* together with every hotspot placed in the pano and every hotspot that
\* leads to it; every hotspot's pano_id and, when set, destination_pano_id
\* name existing panos.
C13_DeletePanoRemovesHotspots ==
    /\ [][/\ \A id \in PanoIds :
                (Answers("delete_pano", id) /\ id \in DOMAIN pano) =>
                    /\ last'.res = "ok"
                    /\ id \notin DOMAIN pano'
                    /\ DOMAIN hotspot' = DOMAIN hotspot \ HotspotsOf(id)
          /\ \A id \in PhotoIds :
                (Answers("delete_photo", id) /\ id \in DOMAIN photo) =>
                    last'.res = "ok" /\ id \notin DOMAIN photo']_vars
    /\ [](\A h \in DOMAIN hotspot :
              /\ hotspot[h].pano_id \in DOMAIN pano
              /\ FkOk(pano, hotspot[h].destination_pano_id))

\* C14: deleting an existing asset removes the asset and its properties, and
\* deleting an existing asset type that no asset has removes the asset type
\* and its property names; every property's asset and every property name's
\* asset type exist.
C14_DeleteRemovesOwned ==
    /\ [][/\ \A id \in AssetIds :
                (Answers("delete_asset", id) /\ id \in DOMAIN asset) =>
                    /\ last'.res = "ok"
                    /\ id \notin DOMAIN asset'
                    /\ DOMAIN asset_property' =
                           DOMAIN asset_property \ Refs(asset_property, "asset_id", id)
          /\ \A id \in AssetTypeIds :
                (/\ Answers("delete_asset_type", id)
                 /\ id \in DOMAIN asset_type
                 /\ Refs(asset, "asset_type_id", id) = {}) =>
                    /\ last'.res = "ok"
                    /\ id \notin DOMAIN asset_type'
                    /\ DOMAIN asset_property_name' =
                           DOMAIN asset_property_name
                               \ Refs(asset_property_name, "asset_type_id", id)]_vars
    /\ [](/\ \A q \in DOMAIN asset_property : asset_property[q].asset_id \in DOMAIN asset
          /\ \A n \in DOMAIN asset_property_name :
                 asset_property_name[n].asset_type_id \in DOMAIN asset_type)

\* C20: a create that names a missing row in a foreign key (an asset with a
\* missing asset type, a site with a missing parent site) answers
\* ConstraintViolation and inserts nothing.
C20_ForeignKeyErrorIsTyped ==
    /\ (/\ last.op = "create_asset"
        /\ last.id \in DOMAIN survey
        /\ last.data.asset_type_id \notin DOMAIN asset_type)
           => last.res = "ConstraintViolation" /\ last.new = Null
    /\ (/\ last.op = "create_site"
        /\ last.data.parent_site_id # Null
        /\ last.data.parent_site_id \notin DOMAIN site)
           => last.res = "ConstraintViolation" /\ last.new = Null

-----------------------------------------------------------------------------
(* Properties of concurrent requests, checked under SpecConc and SpecGuard *)

\* A step in which request r gets its response.
Completes(r) == BagIn(r, req) /\ req' = req (-) SetToBag({r})

\* The site whose latest survey request r sets, Null when r sets none.
LatestOf(r) ==
    IF r.op = "create_survey" /\ r.data.is_latest THEN r.id
    ELSE IF r.op = "update_survey" /\ r.data.is_latest /\ r.id \in DOMAIN survey
    THEN survey[r.id].site_id
    ELSE Null

\* C15: of the concurrent creates and updates that make a survey of one site
\* its latest, the first to commit wins and every later one is answered
\* ConstraintViolation and changes nothing; a site never has two surveys
\* with is_latest = true.
C15_OneLatestUnderRaces ==
    /\ [][\A r \in BagToSet(req) :
             (/\ Completes(r)
              /\ LatestOf(r) # Null
              /\ \E s \in DOMAIN survey :
                    /\ survey[s].site_id = LatestOf(r)
                    /\ survey[s].is_latest
                    /\ r.op = "update_survey" => s # r.id)
                 => last'.res = "ConstraintViolation" /\ survey' = survey]_vars
    /\ [](\A S \in SiteIds :
              Cardinality({s \in Refs(survey, "site_id", S) : survey[s].is_latest}) <= 1)

\* A step that changes no table, inserts one row into one table, or removes
\* one site (detaching its sub-sites) or one asset type.
WholeEffect ==
    \/ UNCHANGED tables
    \/ /\ \E k \in SurveyIds \ DOMAIN survey :
             DOMAIN survey' = DOMAIN survey \cup {k} /\ \A j \in DOMAIN survey : survey'[j] = survey[j]
       /\ UNCHANGED <<site, assetTables, imageTables>>
    \/ /\ \E k \in AssetIds \ DOMAIN asset :
             DOMAIN asset' = DOMAIN asset \cup {k} /\ \A j \in DOMAIN asset : asset'[j] = asset[j]
       /\ UNCHANGED <<siteTables, asset_type, asset_property_name, asset_property, imageTables>>
    \/ /\ \E k \in SiteIds \ DOMAIN site : site' = Put(site, k, [parent_site_id |-> Null])
       /\ UNCHANGED <<survey, assetTables, imageTables>>
    \/ /\ \E k \in AssetTypeIds \ DOMAIN asset_type :
             asset_type' = Put(asset_type, k, [stored_icon_filename |-> Null, original_icon_filename |-> Null])
       /\ UNCHANGED <<siteTables, asset_property_name, asset, asset_property, imageTables>>
    \/ /\ \E k \in DOMAIN site : site' = Drop(Nullify(site, "parent_site_id", k), k)
       /\ UNCHANGED <<survey, assetTables, imageTables>>
    \/ /\ \E k \in DOMAIN asset_type : asset_type' = Drop(asset_type, k)
       /\ UNCHANGED <<siteTables, asset_property_name, asset, asset_property, imageTables>>

\* C16: under every interleaving of delete_site with create_survey and of
\* delete_asset_type with create_asset, every survey's site and every
\* asset's asset type and survey exist, every step is the whole effect of
\* one request or no effect, and a request that is answered with an error
\* has changed nothing.
C16_GuardedDeleteIsSafe ==
    /\ [](/\ \A s \in DOMAIN survey : survey[s].site_id \in DOMAIN site
          /\ \A a \in DOMAIN asset :
                 asset[a].asset_type_id \in DOMAIN asset_type /\ asset[a].survey_id \in DOMAIN survey)
    /\ [][/\ WholeEffect
          /\ \A r \in BagToSet(req) :
                (Completes(r) /\ last'.res # "ok") => UNCHANGED <<tables, seq>>]_vars

\* C16 witness: a delete_site passed its guard, a survey of the site was
\* committed before the delete, and the delete was answered with an error
\* and left the site in place.
C16_Witness ==
    /\ last.op = "delete_site"
    /\ last.res = "IntegrityError"
    /\ last.id \in DOMAIN site
    /\ Refs(survey, "site_id", last.id) # {}

\* C17: an update_survey whose survey has been deleted by the time it
\* commits is answered NotFound, and the survey stays deleted.
C17_UpdateOfDeletedIsNotFound ==
    [][\A r \in BagToSet(req) :
          (Completes(r) /\ r.op = "update_survey" /\ r.id \notin DOMAIN survey)
              => last'.res = "NotFound" /\ r.id \notin DOMAIN survey']_vars

-----------------------------------------------------------------------------
(* Claims on the timestamps (SpecStamps) *)

\* C18: an update of an existing asset whose body holds only name is
\* accepted, leaves asset_type_id and survey_id at their stored values, sets
\* modified to the time of the request and leaves created untouched.
C18_PartialUpdateAccepted ==
    [][(/\ last'.op = "update_asset"
        /\ last'.data.body = {"name"}
        /\ last'.id \in DOMAIN asset)
       => /\ last'.res = "ok"
          /\ asset' = asset
          /\ stamp'[<<"asset", last'.id>>].modified = now
          /\ stamp'[<<"asset", last'.id>>].created = stamp[<<"asset", last'.id>>].created]_vars

\* The timestamps of the rows as crud.create and crud.update keep them:
\* created of a row never changes, a new row has created at the time of its
\* create and no modified, and modified changes only to the time of the
\* request that changes it, whatever the body holds.
StampsByWriter ==
    /\ \A k \in DOMAIN stamp : stamp'[k].created = stamp[k].created
    /\ \A k \in DOMAIN stamp' \ DOMAIN stamp :
          stamp'[k].created = now /\ stamp'[k].modified = Null
    /\ \A k \in DOMAIN stamp :
          stamp'[k].modified # stamp[k].modified => stamp'[k].modified = now

\* The requests that update a row, with the table of the row.
Updates ==
    [update_site |-> "site", update_survey |-> "survey",
     update_asset_type |-> "asset_type", update_asset |-> "asset",
     upload_asset_type_icon_file |-> "asset_type"]

\* A request that updates an existing row with a body of all required
\* fields that names an existing asset type, or uploads an image within the
\* size limit for it.
Updating ==
    /\ last'.op \in DOMAIN Updates
    /\ <<Updates[last'.op], last'.id>> \in DOMAIN stamp
    /\ last'.op = "update_asset" =>
          /\ AssetUpdate.required \subseteq last'.data.body
          /\ FkOk(asset_type, last'.data.asset_type_id)
    /\ last'.op = "upload_asset_type_icon_file" =>
          last'.data.file.content_type = "image/png" /\ last'.data.file.fits

\* C19: created is set once, at creation, by crud.create and never changes;
\* modified is absent until the first update and is set by crud.update on
\* every update, file uploads included; no body sets either of them.
C19_TimestampsSetByWriter ==
    [][/\ StampsByWriter
       /\ Updating => stamp'[<<Updates[last'.op], last'.id>>].modified = now]_vars

\* The part of C19 on creates and on the updates other than uploads.
C19_ExceptUploads ==
    /\ [][/\ StampsByWriter
          /\ (Updating /\ last'.op # "upload_asset_type_icon_file")
                => stamp'[<<Updates[last'.op], last'.id>>].modified = now]_vars
    /\ [](\A k \in DOMAIN stamp : stamp[k].created # Forged /\ stamp[k].modified # Forged)


-----------------------------------------------------------------------------
(* Claims on the list requests (SpecList) *)

\* The rows of the listed table that match the filter of the request c.
Matching(c) ==
    {i \in DOMAIN c.rows : c.search \in {<<>>, <<0>>} \/ c.rows[i] >= c.search[1]}

\* The matching rows of c that the chosen order puts strictly before row i,
\* and those it does not put after row i.
Ahead(c, i) ==
    {j \in Matching(c) :
        Before(c.rows, c.sort_by, c.sort_direction = "descending", j, i)}

NotBehind(c, i) ==
    {j \in Matching(c) :
        ~Before(c.rows, c.sort_by, c.sort_direction = "descending", i, j)}

\* The number of rows a response to c holds: the matching rows less the
\* skipped ones, cut to the limit.
Remaining(c) ==
    LET n    == Cardinality(Matching(c))
        k    == IF c.skip = <<>> THEN 0 ELSE c.skip[1]
        rest == IF n > k THEN n - k ELSE 0
    IN IF c.limit # <<>> /\ c.limit[1] < rest THEN c.limit[1] ELSE rest

-----------------------------------------------------------------------------
(* Claims on the geometry converters (SpecGeometry) *)

C23_BoxRoundTrip ==
    [][(call # <<>> /\ call.fn = "Extent.to_wkt" /\ call'.fn = "Extent.from_wkt")
       => call'.out = Returned(call.self)]_vars

\* The part of C23 on the boxes with min < max on both axes.
C23_ExceptFlatBoxes ==
    [][(call # <<>> /\ call.fn = "Extent.to_wkt" /\ call'.fn = "Extent.from_wkt"
          /\ call.self.longitude_min < call.self.longitude_max
          /\ call.self.latitude_min < call.self.latitude_max)
       => call'.out = Returned(call.self)]_vars

\* Every edge of the ring lies on an edge of the rectangle of its bounds.
OnOwnBounds(ring) ==
    LET b == bounds([ring |-> ring]) IN
    \A i \in 1..(Len(ring) - 1) :
        \/ ring[i][1] = ring[i + 1][1] /\ ring[i][1] \in {b[1], b[3]}
        \/ ring[i][2] = ring[i + 1][2] /\ ring[i][2] \in {b[2], b[4]}

\* C24: Extent.from_wkt raises ValueError(wkt), the GeometryKind error, for
\* a geometry that is not a polygon and ValueError("The shape is not a
\* bounding box"), the NotARectangle error, for a polygon that is not the
\* rectangle of its bounds; an extent is returned only for a polygon that
\* is that rectangle, and it holds the bounds.
C24_BoxErrors ==
    (call # <<>> /\ call.fn = "Extent.from_wkt") =>
        LET ring == from_wkt(call.arg).ring IN
        /\ call.arg.keyword # "POLYGON" => call.out = Raised("ValueError", "wkt")
        /\ (call.arg.keyword = "POLYGON" /\ ~OnOwnBounds(ring))
              => call.out = Raised("ValueError", "The shape is not a bounding box")
        /\ call.out.ok =>
              /\ call.arg.keyword = "POLYGON" /\ OnOwnBounds(ring)
              /\ LET b == bounds([ring |-> ring]) IN
                 call.out.value = [longitude_min |-> b[1], latitude_min |-> b[2],
                                   longitude_max |-> b[3], latitude_max |-> b[4]]

\* A triangle has been refused as not a bounding box.
C24_Witness ==
    /\ call # <<>> /\ call.fn = "Extent.from_wkt"
    /\ call.arg.keyword = "POLYGON" /\ Len(call.arg.numbers) = 4
    /\ call.out = Raised("ValueError", "The shape is not a bounding box")

-----------------------------------------------------------------------------
(* Claims on store_uploaded_file (SpecUpload, SpecUploadFair) *)

\* C25: for a max_size_bytes that is not None, store_uploaded_file raises
\* the too-large error exactly when the bytes of the upload are more than
\* max_size_bytes, and otherwise returns the path of the stored file.
C25_TooLargeExactly ==
    (At("done") /\ call.max_size_bytes # <<>>) =>
        IF Bytes(call.chunks, Len(call.chunks)) > call.max_size_bytes[1]
        THEN call.out = Raised("HTTPException", "TooLarge")
        ELSE call.out = Returned(StoredFile) /\ call.exists

\* The part of C25 on the limits other than 0.
C25_ExceptZero ==
    (At("done") /\ Truthy(call.max_size_bytes)) =>
        IF Bytes(call.chunks, Len(call.chunks)) > call.max_size_bytes[1]
        THEN call.out = Raised("HTTPException", "TooLarge")
        ELSE call.out = Returned(StoredFile) /\ call.exists

-----------------------------------------------------------------------------
(* Claims on the files (SpecFiles) *)

\* The tables whose rows name a file, with the columns of the two names.
FileTables ==
    [asset_type |-> [stored |-> "stored_icon_filename", original |-> "original_icon_filename"],
     overlay    |-> [stored |-> "stored_filename", original |-> "original_filename"],
     pano       |-> [stored |-> "stored_filename", original |-> "original_filename"]]

Table(kind) ==
    CASE kind = "asset_type" -> asset_type
      [] kind = "overlay"    -> overlay
      [] kind = "pano"       -> pano
      [] kind = "survey"     -> survey
      [] kind = "asset"      -> asset
      [] kind = "asset_property"      -> asset_property
      [] kind = "asset_property_name" -> asset_property_name
      [] kind = "hotspot"    -> hotspot

\* The upload requests, with the table of the row and the extensions of
\* the images the request takes.
UploadRequests ==
    [upload_asset_type_icon_file |->
         [kind |-> "asset_type", extensions |-> {".jpg", ".jpeg", ".png", ".svg"}],
     upload_overlay_file |->
         [kind |-> "overlay", extensions |-> {".jpg", ".jpeg", ".png", ".svg"}],
     upload_pano_file |->
         [kind |-> "pano", extensions |-> {".jpg", ".jpeg", ".png"}]]

\* The download requests, with the table of the row.
ServeRequests ==
    [serve_asset_type_icon_file |-> "asset_type",
     serve_overlay_file |-> "overlay",
     serve_pano_file |-> "pano"]

\* An upload to an existing row of a file with an extension the request
\* takes, the content type of that extension and a size within the limit.
Accepted ==
    LET u    == UploadRequests[last'.op]
        file == last'.data.file
    IN /\ last'.id \in DOMAIN Table(u.kind)
       /\ file.filename[2] \in u.extensions
       /\ file.content_type = guess_type(file.filename)
       /\ file.fits

\* The upload of this step has set both filenames and modified of its row
\* and nothing else.
Uploaded ==
    \E kind \in DOMAIN FileTables : \E id \in DOMAIN Table(kind) :
    LET cols == FileTables[kind]
        old  == Table(kind)[id]
        new  == Table(kind)'[id]
    IN /\ kind = UploadRequests[last'.op].kind /\ id = last'.id
       /\ new[cols.stored] # Null /\ new[cols.original] # Null
       /\ \A c \in DOMAIN old \ {cols.stored, cols.original} : new[c] = old[c]
       /\ \A k \in DOMAIN FileTables : \A j \in DOMAIN Table(k) :
             <<k, j>> # <<kind, id>> => Table(k)'[j] = Table(k)[j]
       /\ stamp'[<<kind, id>>] = [stamp[<<kind, id>>] EXCEPT !.modified = now]
       /\ \A k \in DOMAIN stamp \ {<<kind, id>>} : stamp'[k] = stamp[k]

\* C27: an upload fails exactly when the row is missing, the extension or
\* the content type is invalid or the file is too large, and then changes
\* no row and no timestamp; otherwise it succeeds and sets the stored and
\* the original filename and modified of its row and nothing else.
C27_UploadAllOrNothing ==
    [][last'.op \in DOMAIN UploadRequests =>
          /\ last'.res = "ok" <=> Accepted
          /\ ~Accepted => tables' = tables /\ stamp' = stamp
          /\ Accepted => Uploaded]_vars

\* The part of C27 on the uploads that fail.
C27_ExceptAccepted ==
    [][last'.op \in DOMAIN UploadRequests =>
          /\ ~Accepted => last'.res # "ok"
          /\ last'.res # "ok" => tables' = tables /\ stamp' = stamp
          /\ last'.res = "ok" => Uploaded]_vars

\* The two filenames of every row are null together.
NullTogether ==
    \A kind \in DOMAIN FileTables : \A id \in DOMAIN Table(kind) :
       LET row == Table(kind)[id] IN
       row[FileTables[kind].stored] = Null <=> row[FileTables[kind].original] = Null

\* A new row has no filename; the filenames of a row change only by a
\* successful upload to that row, and a stored filename is never cleared.
SetByUpload ==
    \A kind \in DOMAIN FileTables : \A id \in DOMAIN Table(kind)' :
       LET cols == FileTables[kind]
           new  == Table(kind)'[id]
       IN IF id \notin DOMAIN Table(kind)
          THEN new[cols.stored] = Null /\ new[cols.original] = Null
          ELSE LET old == Table(kind)[id] IN
               /\ old[cols.stored] # Null => new[cols.stored] # Null
               /\ (new[cols.stored] # old[cols.stored]
                     \/ new[cols.original] # old[cols.original])
                    => /\ last'.op \in DOMAIN UploadRequests
                       /\ UploadRequests[last'.op].kind = kind
                       /\ last'.id = id
                       /\ last'.res = "ok"

\* A download of an existing row is NotFound exactly while the row has no
\* stored filename.
ServedWhenStored ==
    (last'.op \in DOMAIN ServeRequests /\ last'.id \in DOMAIN Table(ServeRequests[last'.op]))
       => (last'.res = "NotFound"
             <=> Table(ServeRequests[last'.op])[last'.id]
                    [FileTables[ServeRequests[last'.op]].stored] = Null)

-----------------------------------------------------------------------------
(* Claims on the sub-resources (SpecScoped) and the updates (SpecUpdates) *)

\* The requests on a sub-resource, with its table, the column that names
\* its parent and the path parameter that names the row.
ScopedRequests ==
    [update_property_name |->
         [kind |-> "asset_property_name", parent |-> "asset_type_id", child |-> "property_name_id"],
     delete_property_name |->
         [kind |-> "asset_property_name", parent |-> "asset_type_id", child |-> "property_name_id"],
     update_property |->
         [kind |-> "asset_property", parent |-> "asset_id", child |-> "property_id"],
     delete_asset_property |->
         [kind |-> "asset_property", parent |-> "asset_id", child |-> "property_id"],
     update_hotspot |->
         [kind |-> "hotspot", parent |-> "pano_id", child |-> "hotspot_id"],
     delete_hotspot |->
         [kind |-> "hotspot", parent |-> "pano_id", child |-> "hotspot_id"]]

\* The request of this step names an existing row that belongs to another
\* parent than the one in its path.
ThroughOtherParent ==
    /\ last'.op \in DOMAIN ScopedRequests
    /\ LET q == ScopedRequests[last'.op]
           t == Table(q.kind)
           c == last'.data[q.child]
       IN c \in DOMAIN t /\ t[c][q.parent] # last'.id

\* C29: an update or a delete of a hotspot, an asset property or an asset
\* property name that exists but belongs to another pano, asset or asset
\* type than the one in the path answers NotFound and changes no row.
C29_ReachedThroughParent ==
    [][ThroughOtherParent => last'.res = "NotFound" /\ tables' = tables]_vars

\* An update of a property through the other asset was answered NotFound.
C29_Witness ==
    /\ last.op = "update_property" /\ last.res = "NotFound"
    /\ last.id \in DOMAIN asset
    /\ last.data.property_id \in DOMAIN asset_property
    /\ asset_property[last.data.property_id].asset_id # last.id

\* The update requests.
UpdateRequests ==
    {"update_survey", "update_overlay", "update_asset", "update_pano",
     "update_property_name", "update_property", "update_hotspot"}

\* The references of a row that are fixed when the row is created.
FixedReferences ==
    [survey |-> {"site_id"}, overlay |-> {"survey_id"}, asset |-> {"survey_id"},
     pano |-> {"survey_id"}, asset_property |-> {"asset_id"},
     asset_property_name |-> {"asset_type_id"},
     hotspot |-> {"pano_id", "asset_id", "destination_pano_id"}]

\* C30: an update leaves the site_id of every survey, the survey_id of
\* every overlay, asset and pano, the asset_id of every asset property, the
\* asset_type_id of every asset property name and the pano_id, asset_id and
\* destination_pano_id of every hotspot as they were, whatever its body
\* holds.
C30_ReferencesFixed ==
    [][last'.op \in UpdateRequests =>
          \A kind \in DOMAIN FixedReferences :
             /\ DOMAIN Table(kind)' = DOMAIN Table(kind)
             /\ \A id \in DOMAIN Table(kind) : \A c \in FixedReferences[kind] :
                   Table(kind)'[id][c] = Table(kind)[id][c]]_vars

\* An update of a hotspot that references an asset and a destination pano
\* was answered ok.
C30_Witness ==
    /\ last.op = "update_hotspot" /\ last.res = "ok"
    /\ last.data.hotspot_id \in DOMAIN hotspot
    /\ hotspot[last.data.hotspot_id].pano_id = last.id
    /\ hotspot[last.data.hotspot_id].asset_id # Null
    /\ hotspot[last.data.hotspot_id].destination_pano_id # Null

====
